---------------------------- MODULE Spec2Model ----------------------------
(***************************************************************************)
(* A state-machine model of pizzapostr: the PizzaCanvas component (its     *)
(* selection, animation and filter state, the animation effect with its    *)
(* requestAnimationFrame loop, the GIF export), the renderer's drawPizza    *)
(* entry point, the easing/scheduling functions, and the pizza server      *)
(* actions (savePizza, getUserPizzas, deletePizza).                        *)
(*                                                                         *)
(* Units.  Time is counted in ticks of 2.5 ms, so that the wave export's   *)
(* sample step (2.2 s / 80) and every duration of the scheduling functions *)
(* is a whole number.  The rotation accumulator is counted in              *)
(* milliradians.  An angle handed to drawPizza as `rotation` is a record   *)
(* [mrad, turn60] standing for mrad/1000 + turn60 * (2*pi/60) radians: the *)
(* live loop adds milliradians, the export adds sixtieths of a turn.       *)
(* A wave offset is a whole number of 1/WaveDen turns, a flip angle a      *)
(* whole number of 1/FlipDen half turns.                                   *)
(***************************************************************************)
EXTENDS Integers, Sequences, FiniteSets, TLC

(***************************************************************************)
(* Bounds of the model                                                     *)
(***************************************************************************)
\* how many toppings of the catalog the selection specifications toggle
NumToppings == 5
\* how many toppings of the catalog the frame-driver specification toggles
NumFrameToppings == 1
\* live rotation frames explored in either direction
MaxRotFrames == 1
\* the clock readings of a live loop are multiples of LiveStep ticks
LiveStep == 300
\* the largest clock reading of a live loop, in LiveSteps
MaxLiveSteps == 2
\* the largest gap between two live frames, in LiveSteps
MaxDt == 2
\* the export frames at which a frame capture may fail are 0..MaxFailFrame
MaxFailFrame == 1
\* pending status-clearing timers
MaxTimers == 1
\* calls of savePizza awaited at once
MaxSaves == 1
MaxLoads == 2
MaxDeletes == 1
NumDrawToppings == 4
MaxHalfDrawn == 2
MaxCycles == 1
FarCycles == 1000
\* handlers and callbacks in a run of the whole component
MaxEvents == 4
\* rows the Pizza table is ever given
MaxPizzas == 2
\* deletePizza calls in flight at once
MaxCalls == 1
\* the widest spacing of the samples of a wave sweep, in ticks
MaxSweepStep == 2
\* the spacing of the ticks at which the calls of a frame are listed
CallStep == 20
\* the spacing of the channel values of the filtered pixels
LevelStep == 51
\* how often a filter is applied to one buffer
MaxPasses == 2
\* the pixels of a buffer the neon stage is given, and their edge strengths
BufPixels == 2
MaxEdge == 5

(***************************************************************************)
(* Program constants                                                       *)
(***************************************************************************)
MAX_TOPPINGS == 4
NUM_SLICES == 8
\* 0.008 rad per live frame, in milliradians
RotSpeed == 8
\* getWaveOffsets: 0.8 s, in ticks
SliceDuration == 320
\* getFlipAngle: 0.7 s and 0.35 s, in ticks
FlipDuration == 280
PauseDuration == 140
\* handleExportGif: frames of a wave export and of a rotation export
WaveExportFrames == 80
RotExportFrames == 60
\* frames.push({ data: offscreen, delay: 33 })
FrameDelay == 33
\* frames of a whole-flip export
FlipExportFrames == 60

Null == "null"
\* drawPizza's optional arguments when not given, and a frame's unused fields
NoOffsets == <<>>
NoFlip == -1

ToppingIds ==
  <<"pepperoni", "mushroom", "olive", "pepper", "pineapple",
    "ham", "chicken", "onion", "bacon", "ranch">>

Toppings == {ToppingIds[i] : i \in 1..NumToppings}
FrameToppings == {ToppingIds[i] : i \in 1..NumFrameToppings}

\* the modes the component's buttons toggle
\* the modes of the component under src, and those of the renderer's type
ComponentAnimations == {"cw", "ccw", "wave", "wave-ccw"}
AnimationTypes == ComponentAnimations \cup {"flip"}
FilterTypes == {"mono", "neon"}
PizzaModes == {"whole", "half"}

VARIABLES
  selectedToppings,  \* useState<Set<string>>: a JS Set, in insertion order
  animation,         \* useState<AnimationType>
  filter,            \* useState<FilterType>
  mode,              \* useState<PizzaMode>
  leftToppings,      \* half topology: the left half's selection set
  rightToppings,     \* half topology: the right half's selection set
  rotationRef,       \* useRef(0): the persistent rotation accumulator (mrad)
  rafRef,            \* the callback of the running frame loop, or NoClosure
  rafId,             \* rafRef.current: the handle of the frame requested last
  rafQueue,          \* the browser's frame requests: handle and callback
  elapsed,           \* clock reading of the running loop since its start
  canvas,            \* the frame the live surface shows
  exporting,         \* useState(false)
  exportPc,          \* where handleExportGif stands: idle, import, encode
  exportCl,          \* the state handleExportGif closed over when clicked
  frames,            \* the export's captured frames: what each was sampled at
  saveStatus,        \* useState<string>('')
  statusTimers,      \* pending setTimeout(() => setSaveStatus(''), 3000)
  saving,            \* calls of savePizza that handleSavePizza awaits
  listing,           \* calls of getUserPizzas that loadSavedPizzas awaits
  deleting,          \* calls of deletePizza that handleDeletePizza awaits
  lastOp,            \* the handler or callback that ran last, with its argument
  snap,              \* one earlier live frame, remembered with its inputs
  steps,             \* handlers and callbacks run so far, where a run is bounded
  store,             \* the Pizza table
  nextId,            \* the next id the table hands out
  reqs,              \* the deletePizza calls between their lookup and their delete
  dbNow,             \* the database clock that stamps createdAt
  fnCall,            \* the function called last, with its arguments
  fnRet              \* what that call returned

cvars == <<selectedToppings, animation, filter, rotationRef, rafRef, rafId,
           rafQueue, elapsed, canvas, exporting, exportPc, exportCl, frames,
           saveStatus, statusTimers, saving, listing, deleting>>
hvars == <<mode, leftToppings, rightToppings>>
svars == <<store, nextId, reqs, dbNow>>
pvars == <<fnCall, fnRet>>
vars == <<cvars, hvars, svars, pvars, lastOp, snap, steps>>

(***************************************************************************)
(* Sequences as ordered sets                                               *)
(***************************************************************************)
Range(s) == {s[i] : i \in 1..Len(s)}

Remove(s, x) == SelectSeq(s, LAMBDA y : y # x)

(***************************************************************************)
(* Easing and scheduling                                                   *)
(***************************************************************************)
\* easeInOutCubic(p / d) as a whole number of 1/EaseDen(d):
\* 4 t^3 below one half, 1 - (2 - 2t)^3 / 2 from there on
EaseDen(d) == (d * d * d) \div 4

easeInOutCubic(p, d) ==
  IF 2 * p < d THEN p * p * p
  ELSE EaseDen(d) - (d - p) * (d - p) * (d - p)

\* ((time % cycle) + cycle) % cycle, with JavaScript's truncating %
JsRem(a, b) == IF a >= 0 THEN a % b ELSE -((-a) % b)

PositiveModulo(time, cycle) == JsRem(JsRem(time, cycle) + cycle, cycle)

Min(a, b) == IF a < b THEN a ELSE b
Max(a, b) == IF a > b THEN a ELSE b

Stagger == SliceDuration \div 4
WaveCycle == SliceDuration + 7 * Stagger
WaveDen == EaseDen(SliceDuration)

\* the wave whose reverse starts one wedge late
getWaveOffsetsReverseShifted(time, reverse) ==
  LET t == PositiveModulo(time, WaveCycle)
  IN  [i \in 1..NUM_SLICES |->
         LET s == i - 1
             idx == IF reverse THEN 8 - s ELSE s
             sliceStart == idx * Stagger
             progress == Max(0, Min(SliceDuration, t - sliceStart))
         IN  easeInOutCubic(progress, SliceDuration)]

\* the wave without the stagger: every wedge starts at once
getWaveOffsetsUnstaggered(time, reverse) ==
  LET t == PositiveModulo(time, WaveCycle)
  IN  [i \in 1..NUM_SLICES |->
         LET progress == Max(0, Min(SliceDuration, t))
         IN  easeInOutCubic(progress, SliceDuration)]

\* getWaveOffsets: the offsets of slices 0..7 as a sequence (slice s at s + 1),
\* each a whole number of 1/WaveDen turns
getWaveOffsets(time, reverse) ==
  LET t == PositiveModulo(time, WaveCycle)
  IN  [i \in 1..NUM_SLICES |->
         LET s == i - 1
             idx == IF reverse THEN 7 - s ELSE s
             sliceStart == idx * Stagger
             progress == Max(0, Min(SliceDuration, t - sliceStart))
         IN  easeInOutCubic(progress, SliceDuration)]

FlipCycle == 2 * FlipDuration + 2 * PauseDuration
FlipDen == EaseDen(FlipDuration)

\* the flip angle that rests face up in both pauses
getFlipAngleRestsFaceUp(time) ==
  LET t == PositiveModulo(time, FlipCycle)
  IN  IF t < FlipDuration
        THEN easeInOutCubic(t, FlipDuration)
      ELSE IF t < FlipDuration + PauseDuration
        THEN 0
      ELSE IF t < 2 * FlipDuration + PauseDuration
        THEN FlipDen
             + easeInOutCubic(t - FlipDuration - PauseDuration, FlipDuration)
      ELSE 0

\* the flip angle with the truncating remainder alone
getFlipAngleTruncatingRem(time) ==
  LET t == JsRem(time, FlipCycle)
  IN  IF t < FlipDuration
        THEN easeInOutCubic(t, FlipDuration)
      ELSE IF t < FlipDuration + PauseDuration
        THEN FlipDen
      ELSE IF t < 2 * FlipDuration + PauseDuration
        THEN FlipDen
             + easeInOutCubic(t - FlipDuration - PauseDuration, FlipDuration)
      ELSE 0

\* getFlipAngle: a whole number of 1/FlipDen half turns (FlipDen is pi)
getFlipAngle(time) ==
  LET t == PositiveModulo(time, FlipCycle)
  IN  IF t < FlipDuration
        THEN easeInOutCubic(t, FlipDuration)
      ELSE IF t < FlipDuration + PauseDuration
        THEN FlipDen
      ELSE IF t < 2 * FlipDuration + PauseDuration
        THEN FlipDen
             + easeInOutCubic(t - FlipDuration - PauseDuration, FlipDuration)
      ELSE 0

(***************************************************************************)
(* The renderer                                                            *)
(***************************************************************************)
Angle(m, t) == [mrad |-> m, turn60 |-> t]
ZeroAngle == Angle(0, 0)

\* cos(offset) < 0 for an offset of off/WaveDen turns
SliceShowsBack(off) == 4 * off > WaveDen /\ 4 * off < 3 * WaveDen

\* cos(flipAngle) < 0 for a flip angle of a/FlipDen half turns
FlipShowsBack(a) == 2 * a > FlipDen /\ 2 * a < 3 * FlipDen

NoContent == [pmode |-> "none", tops |-> <<>>, left |-> {}, right |-> {}]

\* drawContent: what the front face shows
drawContent(tops, pmode, halfInfo) ==
  IF pmode = "whole"
    THEN [pmode |-> "whole", tops |-> tops, left |-> {}, right |-> {}]
    ELSE [pmode |-> "half", tops |-> <<>>, left |-> halfInfo.leftToppings,
          right |-> halfInfo.rightToppings]

\* drawPizza: the frame one call leaves on the surface.  The surface is
\* cleared first, so the frame is a function of the arguments alone.
drawPizza(tops, rotation, sliceOffsets, activeFilter, pmode, halfInfo, flipAngle) ==
  IF sliceOffsets # NoOffsets THEN
    LET faces == [i \in 1..NUM_SLICES |->
                    IF SliceShowsBack(sliceOffsets[i]) THEN "back"
                    ELSE "front"]
    IN  [branch |-> "slices", rot |-> ZeroAngle, offs |-> sliceOffsets,
         flip |-> NoFlip, faces |-> faces,
         content |-> IF \E i \in 1..NUM_SLICES : faces[i] = "front"
                     THEN drawContent(tops, pmode, halfInfo) ELSE NoContent,
         filt |-> activeFilter]
  ELSE IF flipAngle # NoFlip THEN
    LET face == IF FlipShowsBack(flipAngle) THEN "back" ELSE "front"
    IN  [branch |-> "flip", rot |-> ZeroAngle, offs |-> NoOffsets,
         flip |-> flipAngle, faces |-> <<face>>,
         content |-> IF face = "front"
                     THEN drawContent(tops, pmode, halfInfo) ELSE NoContent,
         filt |-> activeFilter]
  ELSE
    [branch |-> "rotate", rot |-> rotation, offs |-> NoOffsets,
     flip |-> NoFlip, faces |-> <<"front">>,
     content |-> drawContent(tops, pmode, halfInfo), filt |-> activeFilter]

\* the surface before anything was drawn on it
NoFrame ==
  [branch |-> "none", rot |-> ZeroAngle, offs |-> NoOffsets, flip |-> NoFlip,
   faces |-> <<>>, content |-> NoContent, filt |-> Null]

(***************************************************************************)
(* The PizzaCanvas component                                               *)
(***************************************************************************)
Closure(anim, filt, tops) == [animation |-> anim, filter |-> filt, tops |-> tops]

\* no callback pending, nothing closed over
NoClosure == Closure(Null, Null, <<>>)

HalfInfo == [leftToppings |-> leftToppings, rightToppings |-> rightToppings]

\* a history record: the handler, its argument, the accumulator it found
Op(name, arg) == [op |-> name, arg |-> arg, rot |-> rotationRef]

StaticFrame(tops, filt, pmode, half) ==
  drawPizza(tops, ZeroAngle, NoOffsets, filt, pmode, half, NoFlip)

\* requestAnimationFrame: the handle it returns is one no pending request
\* has (the smallest, here: the code uses a handle only to cancel its request)
FreshHandle(queue) ==
  CHOOSE id \in 1..(Cardinality(queue) + 1) : \A cb \in queue : cb.id # id

requestAnimationFrame(queue, cl) ==
  queue \cup {[id |-> FreshHandle(queue), cl |-> cl]}

\* cancelAnimationFrame: the request with this handle, if it is pending
cancelAnimationFrame(queue, id) == {cb \in queue : cb.id # id}

\* the requests across a run of the effect whose cleanup cancels nothing
EffectFramesNoCancel(tops, anim, filt) ==
  /\ rafQueue' = IF anim = Null THEN rafQueue
                 ELSE requestAnimationFrame(rafQueue, Closure(anim, filt, tops))
  /\ rafId' = IF anim = Null THEN rafId ELSE FreshHandle(rafQueue)

\* the frame requests across a run of the animation effect: the cleanup its
\* previous run returned (a run with an animation returns one) cancels
\* rafRef.current, then a run with an animation requests its first frame
EffectFrames(tops, anim, filt) ==
  LET kept == IF animation # Null THEN cancelAnimationFrame(rafQueue, rafId)
              ELSE rafQueue
  IN  /\ rafQueue' = IF anim = Null THEN kept
                     ELSE requestAnimationFrame(kept, Closure(anim, filt, tops))
      /\ rafId' = IF anim = Null THEN rafId ELSE FreshHandle(kept)

\* The animation effect, run (after the cleanup of its previous run, which
\* cancels the pending frame) whenever selectedToppings, animation or filter
\* changed.  Without an animation it resets the accumulator and draws once;
\* with one it requests the first frame of a loop that closes over the state.
\* the effect without the reset of its static branch
AnimationEffectNoReset(tops, anim, filt, pmode, half) ==
  /\ rotationRef' = rotationRef
  /\ canvas' = IF anim = Null
               THEN drawPizza(tops, Angle(rotationRef, 0), NoOffsets, filt,
                              pmode, half, NoFlip)
               ELSE canvas
  /\ rafRef' = IF anim = Null THEN NoClosure ELSE Closure(anim, filt, tops)
  /\ EffectFrames(tops, anim, filt)
  /\ elapsed' = 0

\* the effect resetting the accumulator on every run
AnimationEffectAlwaysReset(tops, anim, filt, pmode, half) ==
  /\ rotationRef' = 0
  /\ canvas' = IF anim = Null THEN StaticFrame(tops, filt, pmode, half)
               ELSE canvas
  /\ rafRef' = IF anim = Null THEN NoClosure ELSE Closure(anim, filt, tops)
  /\ EffectFrames(tops, anim, filt)
  /\ elapsed' = 0

\* the effect leaving a running loop of the same mode in place
AnimationEffectKeepsLoop(tops, anim, filt, pmode, half) ==
  /\ rotationRef' = IF anim = Null THEN 0 ELSE rotationRef
  /\ canvas' = IF anim = Null THEN StaticFrame(tops, filt, pmode, half)
               ELSE canvas
  /\ rafRef' = IF anim = Null THEN NoClosure
               ELSE IF rafRef.animation = anim THEN rafRef
               ELSE Closure(anim, filt, tops)
  /\ IF anim # Null /\ rafRef.animation = anim
       THEN UNCHANGED <<rafId, rafQueue>>
     ELSE EffectFrames(tops, anim, filt)
  /\ elapsed' = IF anim # Null /\ rafRef.animation = anim THEN elapsed ELSE 0

\* the effect whose runs return no cleanup
AnimationEffectNoCancel(tops, anim, filt, pmode, half) ==
  /\ rotationRef' = IF anim = Null THEN 0 ELSE rotationRef
  /\ canvas' = IF anim = Null THEN StaticFrame(tops, filt, pmode, half)
               ELSE canvas
  /\ rafRef' = IF anim = Null THEN NoClosure ELSE Closure(anim, filt, tops)
  /\ EffectFramesNoCancel(tops, anim, filt)
  /\ elapsed' = 0

AnimationEffect(tops, anim, filt, pmode, half) ==
  /\ rotationRef' = IF anim = Null THEN 0 ELSE rotationRef
  /\ canvas' = IF anim = Null THEN StaticFrame(tops, filt, pmode, half)
               ELSE canvas
  /\ rafRef' = IF anim = Null THEN NoClosure ELSE Closure(anim, filt, tops)
  /\ EffectFrames(tops, anim, filt)
  /\ elapsed' = 0

\* the updater of toggleTopping without the size guard
toggleToppingNoCap(prev, topping) ==
  IF topping \in Range(prev) THEN Remove(prev, topping)
  ELSE Append(prev, topping)

\* the updater of toggleTopping with the size guard around both branches
toggleToppingGuardFirst(prev, topping) ==
  IF Len(prev) >= MAX_TOPPINGS THEN prev
  ELSE IF topping \in Range(prev) THEN Remove(prev, topping)
  ELSE Append(prev, topping)

\* the updater toggleTopping hands to setSelectedToppings
toggleToppingSet(prev, topping) ==
  IF topping \in Range(prev) THEN Remove(prev, topping)
  ELSE IF Len(prev) < MAX_TOPPINGS THEN Append(prev, topping)
  ELSE prev

UnchangedExport == UNCHANGED <<exporting, exportPc, exportCl, frames>>
UnchangedStatus ==
  UNCHANGED <<saveStatus, statusTimers, saving, listing, deleting>>

ToggleTopping(topping) ==
  /\ selectedToppings' = toggleToppingSet(selectedToppings, topping)
  /\ AnimationEffect(selectedToppings', animation, filter, mode, HalfInfo)
  /\ lastOp' = Op("toggleTopping", [id |-> topping, prev |-> selectedToppings])
  /\ UNCHANGED <<hvars, svars>>
  /\ UNCHANGED <<animation, filter>>
  /\ UnchangedExport /\ UnchangedStatus

\* toggleAnimation's updater, replacing but never clearing
toggleAnimationNoClear(prev, type) == type

toggleAnimationSet(prev, type) == IF prev = type THEN Null ELSE type

ToggleAnimation(type) ==
  /\ animation' = toggleAnimationSet(animation, type)
  /\ AnimationEffect(selectedToppings, animation', filter, mode, HalfInfo)
  /\ lastOp' = Op("toggleAnimation", type)
  /\ UNCHANGED <<hvars, svars>>
  /\ UNCHANGED <<selectedToppings, filter>>
  /\ UnchangedExport /\ UnchangedStatus

toggleFilterSet(prev, type) == IF prev = type THEN Null ELSE type

ToggleFilter(type) ==
  /\ filter' = toggleFilterSet(filter, type)
  /\ AnimationEffect(selectedToppings, animation, filter', mode, HalfInfo)
  /\ lastOp' = Op("toggleFilter", type)
  /\ UNCHANGED <<hvars, svars>>
  /\ UNCHANGED <<selectedToppings, animation>>
  /\ UnchangedExport /\ UnchangedStatus

\* new Set(array): the array's members in order of first occurrence
RECURSIVE NewSet(_)
NewSet(arr) ==
  IF arr = <<>> THEN <<>>
  ELSE LET front == NewSet(SubSeq(arr, 1, Len(arr) - 1))
           last == arr[Len(arr)]
       IN  IF last \in Range(front) THEN front ELSE Append(front, last)

\* the load that adds the record's decorations to the selection
HandleLoadPizzaAddsToSelection(pizza) ==
  /\ selectedToppings' = NewSet(selectedToppings \o pizza.toppings)
  /\ animation' = pizza.animation
  /\ filter' = pizza.filter
  /\ AnimationEffect(selectedToppings', animation', filter', mode, HalfInfo)
  /\ lastOp' = Op("handleLoadPizza", pizza.animation)
  /\ UNCHANGED <<hvars, svars>>
  /\ UnchangedExport /\ UnchangedStatus

HandleLoadPizza(pizza) ==
  /\ selectedToppings' = NewSet(pizza.toppings)
  /\ animation' = pizza.animation
  /\ filter' = pizza.filter
  /\ AnimationEffect(selectedToppings', animation', filter', mode, HalfInfo)
  /\ lastOp' = Op("handleLoadPizza", pizza.animation)
  /\ UNCHANGED <<hvars, svars>>
  /\ UnchangedExport /\ UnchangedStatus

(***************************************************************************)
(* The live loop: one requestAnimationFrame callback per action            *)
(***************************************************************************)
ClockReadings == {elapsed + k * LiveStep : k \in 1..MaxDt}

\* const speed = animation === 'cw' ? 0.008 : -0.008
rotationSpeed(anim) == IF anim = "cw" THEN RotSpeed ELSE -RotSpeed

\* the end of every animate(): rafRef.current = requestAnimationFrame(animate),
\* after the browser took the request cb that it is running off its list
RequestNextFrame(cb) ==
  /\ rafQueue' = requestAnimationFrame(rafQueue \ {cb}, cb.cl)
  /\ rafId' = FreshHandle(rafQueue \ {cb})
  /\ rafRef' = cb.cl

\* the wave loop's animate(), run by the browser for a pending request
AnimateWave ==
  \E cb \in rafQueue :
    /\ cb.cl.animation \in {"wave", "wave-ccw"}
    /\ \E now \in ClockReadings :
         /\ now <= LiveStep * MaxLiveSteps
         /\ elapsed' = now
         /\ canvas' = drawPizza(cb.cl.tops, ZeroAngle,
                                getWaveOffsets(now, cb.cl.animation = "wave-ccw"),
                                cb.cl.filter, mode, HalfInfo, NoFlip)
    /\ lastOp' = Op("animate", cb.cl.animation)
    /\ RequestNextFrame(cb)
    /\ UNCHANGED <<hvars, svars>>
    /\ UNCHANGED <<selectedToppings, animation, filter, rotationRef>>
    /\ UnchangedExport /\ UnchangedStatus

\* the whole-flip loop's animate()
AnimateFlip ==
  \E cb \in rafQueue :
    /\ cb.cl.animation = "flip"
    /\ \E now \in ClockReadings :
         /\ now <= LiveStep * MaxLiveSteps
         /\ elapsed' = now
         /\ canvas' = drawPizza(cb.cl.tops, ZeroAngle, NoOffsets, cb.cl.filter,
                                mode, HalfInfo, getFlipAngle(now))
    /\ lastOp' = Op("animate", cb.cl.animation)
    /\ RequestNextFrame(cb)
    /\ UNCHANGED <<hvars, svars>>
    /\ UNCHANGED <<selectedToppings, animation, filter, rotationRef>>
    /\ UnchangedExport /\ UnchangedStatus

\* the CW / CCW loop's animate()
AnimateRotate ==
  \E cb \in rafQueue :
    /\ cb.cl.animation \in {"cw", "ccw"}
    /\ rotationRef' = rotationRef + rotationSpeed(cb.cl.animation)
    /\ rotationRef' <= MaxRotFrames * RotSpeed
    /\ rotationRef' >= -(MaxRotFrames * RotSpeed)
    /\ \E now \in ClockReadings :
         /\ now <= LiveStep * MaxLiveSteps
         /\ elapsed' = now
    /\ canvas' = drawPizza(cb.cl.tops, Angle(rotationRef', 0), NoOffsets,
                           cb.cl.filter, mode, HalfInfo, NoFlip)
    /\ lastOp' = Op("animate", cb.cl.animation)
    /\ RequestNextFrame(cb)
    /\ UNCHANGED <<hvars, svars>>
    /\ UNCHANGED <<selectedToppings, animation, filter>>
    /\ UnchangedExport /\ UnchangedStatus

(***************************************************************************)
(* handleExportGif: the click, and the continuations after its two awaits   *)
(***************************************************************************)
StatusExportFailed == "GIF export failed"

\* the wave export sampling both ends of the cycle
waveSampleTimeInclusive(i) == (i * WaveCycle) \div (WaveExportFrames - 1)

\* the wave export's sample time of frame i: (i / totalFrames) * cycleDuration
waveSampleTime(i) == (i * WaveCycle) \div WaveExportFrames

\* the rotation export's angle of frame i: speed * i, speed = +-(2 pi / 60)
rotationSampleAngle(anim, i) == Angle(0, IF anim = "cw" THEN i ELSE -i)

\* the whole-flip export's sample time of frame i
flipSampleTime(i) == (i * FlipCycle) \div FlipExportFrames

exportFrameCount(anim) ==
  IF anim \in {"wave", "wave-ccw"} THEN WaveExportFrames
  ELSE IF anim = "flip" THEN FlipExportFrames
  ELSE RotExportFrames

\* what frame i of the capture loop is sampled at: a time (wave, flip) or an
\* angle (rotation)
exportSampleAt(anim, i) ==
  IF anim \in {"wave", "wave-ccw"}
    THEN [time |-> waveSampleTime(i), angle |-> ZeroAngle]
  ELSE IF anim = "flip"
    THEN [time |-> flipSampleTime(i), angle |-> ZeroAngle]
  ELSE [time |-> 0, angle |-> rotationSampleAngle(anim, i)]

\* the frame the capture loop draws on the live surface for frame i
exportFrame(cl, i) ==
  IF cl.animation \in {"wave", "wave-ccw"} THEN
    drawPizza(cl.tops, ZeroAngle,
              getWaveOffsets(waveSampleTime(i), cl.animation = "wave-ccw"),
              cl.filter, mode, HalfInfo, NoFlip)
  ELSE IF cl.animation = "flip" THEN
    drawPizza(cl.tops, ZeroAngle, NoOffsets, cl.filter, mode, HalfInfo,
              getFlipAngle(flipSampleTime(i)))
  ELSE
    drawPizza(cl.tops, rotationSampleAngle(cl.animation, i), NoOffsets, cl.filter,
              mode, HalfInfo, NoFlip)

\* "Restore current animation frame" after the capture loop
exportRestoreFrame(cl, rot) ==
  drawPizza(cl.tops, Angle(rot, 0), NoOffsets, cl.filter, mode, HalfInfo, NoFlip)

\* the click on Export GIF: the button is rendered while an animation is
\* active and disabled while exporting
HandleExportGif ==
  /\ animation # Null
  /\ ~exporting
  /\ exporting' = TRUE
  /\ exportPc' = "import"
  /\ exportCl' = Closure(animation, filter, selectedToppings)
  /\ lastOp' = Op("handleExportGif", animation)
  /\ UNCHANGED <<hvars, svars>>
  /\ UNCHANGED <<selectedToppings, animation, filter, rotationRef, rafRef,
                 rafId, rafQueue,
                 elapsed, canvas, frames>>
  /\ UnchangedStatus

\* catch and finally of handleExportGif
ExportCatch ==
  /\ statusTimers < MaxTimers
  /\ saveStatus' = StatusExportFailed
  /\ statusTimers' = statusTimers + 1
  /\ exporting' = FALSE
  /\ exportPc' = "idle"
  /\ exportCl' = NoClosure
  /\ frames' = <<>>

\* await import('modern-gif') rejects
ExportImportFail ==
  /\ exportPc = "import"
  /\ ExportCatch
  /\ lastOp' = Op("exportImportFail", exportCl.animation)
  /\ UNCHANGED <<hvars, svars>>
  /\ UNCHANGED <<selectedToppings, animation, filter, rotationRef, rafRef,
                 rafId, rafQueue,
                 elapsed, canvas, saving, listing, deleting>>

\* no context, and a return that is not in the try: no finally runs
ExportNoContextBeforeTry ==
  /\ exportPc = "import"
  /\ exportPc' = "idle"
  /\ exportCl' = NoClosure
  /\ lastOp' = Op("exportNoContext", exportCl.animation)
  /\ UNCHANGED <<hvars, svars>>
  /\ UNCHANGED <<selectedToppings, animation, filter, rotationRef, rafRef,
                 rafId, rafQueue,
                 elapsed, canvas, frames, exporting>>
  /\ UnchangedStatus

\* canvas.getContext('2d') gives no context: return, through finally
ExportNoContext ==
  /\ exportPc = "import"
  /\ exporting' = FALSE
  /\ exportPc' = "idle"
  /\ exportCl' = NoClosure
  /\ lastOp' = Op("exportNoContext", exportCl.animation)
  /\ UNCHANGED <<hvars, svars>>
  /\ UNCHANGED <<selectedToppings, animation, filter, rotationRef, rafRef,
                 rafId, rafQueue,
                 elapsed, canvas, frames>>
  /\ UnchangedStatus

\* the capture loop runs through, the surface is redrawn, encode is awaited
ExportCapture ==
  /\ exportPc = "import"
  /\ frames' = [k \in 1..exportFrameCount(exportCl.animation) |->
                  [at |-> exportSampleAt(exportCl.animation, k - 1),
                   delay |-> FrameDelay]]
  /\ canvas' = exportRestoreFrame(exportCl, rotationRef)
  /\ exportPc' = "encode"
  /\ UNCHANGED exportCl
  /\ lastOp' = Op("exportCapture", exportCl.animation)
  /\ UNCHANGED <<hvars, svars>>
  /\ UNCHANGED <<selectedToppings, animation, filter, rotationRef, rafRef,
                 rafId, rafQueue,
                 elapsed, exporting>>
  /\ UnchangedStatus

\* the capture loop throws while capturing frame i, after drawing it
ExportCaptureFail(i) ==
  /\ exportPc = "import"
  /\ i < exportFrameCount(exportCl.animation)
  /\ canvas' = exportFrame(exportCl, i)
  /\ ExportCatch
  /\ lastOp' = Op("exportCaptureFail", exportCl.animation)
  /\ UNCHANGED <<hvars, svars>>
  /\ UNCHANGED <<selectedToppings, animation, filter, rotationRef, rafRef,
                 rafId, rafQueue,
                 elapsed, saving, listing, deleting>>

\* encode resolves: the download, then finally
ExportEncodeOk ==
  /\ exportPc = "encode"
  /\ exporting' = FALSE
  /\ exportPc' = "idle"
  /\ frames' = <<>>
  /\ exportCl' = NoClosure
  /\ lastOp' = Op("exportDownload", Null)
  /\ UNCHANGED <<hvars, svars>>
  /\ UNCHANGED <<selectedToppings, animation, filter, rotationRef, rafRef,
                 rafId, rafQueue,
                 elapsed, canvas>>
  /\ UnchangedStatus

\* encode rejects
ExportEncodeFail ==
  /\ exportPc = "encode"
  /\ ExportCatch
  /\ lastOp' = Op("exportEncodeFail", Null)
  /\ UNCHANGED <<hvars, svars>>
  /\ UNCHANGED <<selectedToppings, animation, filter, rotationRef, rafRef,
                 rafId, rafQueue,
                 elapsed, canvas, saving, listing, deleting>>

\* setTimeout(() => setSaveStatus(''), 3000) fires
ClearStatus ==
  /\ statusTimers > 0
  /\ saveStatus' = ""
  /\ statusTimers' = statusTimers - 1
  /\ lastOp' = Op("clearStatus", Null)
  /\ UNCHANGED <<hvars, svars>>
  /\ UNCHANGED <<selectedToppings, animation, filter, rotationRef, rafRef,
                 rafId, rafQueue,
                 elapsed, canvas, saving, listing, deleting>>
  /\ UnchangedExport

(***************************************************************************)
(* handleSavePizza: the click on Save, and the continuation after its await *)
(***************************************************************************)
HandleSavePizza(pizzaName) ==
  /\ IF pizzaName = ""
       THEN /\ saveStatus' = "Please enter a name for your pizza"
            /\ UNCHANGED saving
       ELSE /\ saving < MaxSaves
            /\ saveStatus' = "Saving..."
            /\ saving' = saving + 1
  /\ lastOp' = Op("handleSavePizza", pizzaName)
  /\ UNCHANGED <<hvars, svars, listing, deleting>>
  /\ UNCHANGED <<selectedToppings, animation, filter, rotationRef, rafRef,
                 rafId, rafQueue,
                 elapsed, canvas, statusTimers>>
  /\ UnchangedExport

\* the errors savePizza returns
SaveErrors == {"Not authenticated", "Invalid pizza data", "Failed to save pizza"}

\* `Error: ${result.error}`
ErrorStatus(error) ==
  CASE error = "Not authenticated" -> "Error: Not authenticated"
    [] error = "Invalid pizza data" -> "Error: Invalid pizza data"
    [] error = "Failed to save pizza" -> "Error: Failed to save pizza"

\* the failed save that also drops the filter
SaveRejectedClearsFilter(error) ==
  /\ saving > 0
  /\ saving' = saving - 1
  /\ saveStatus' = ErrorStatus(error)
  /\ filter' = Null
  /\ lastOp' = Op("saveRejected", error)
  /\ UNCHANGED <<hvars, svars, listing, deleting>>
  /\ UNCHANGED <<selectedToppings, animation, rotationRef, rafRef,
                 rafId, rafQueue,
                 elapsed, canvas, statusTimers>>
  /\ UnchangedExport

\* savePizza resolved with { error }
SaveRejected(error) ==
  /\ saving > 0
  /\ saving' = saving - 1
  /\ saveStatus' = ErrorStatus(error)
  /\ lastOp' = Op("saveRejected", error)
  /\ UNCHANGED <<hvars, svars, listing, deleting>>
  /\ UNCHANGED <<selectedToppings, animation, filter, rotationRef, rafRef,
                 rafId, rafQueue,
                 elapsed, canvas, statusTimers>>
  /\ UnchangedExport

\* savePizza resolved with { pizza }: the list is loaded again
SaveAccepted ==
  /\ saving > 0
  /\ statusTimers < MaxTimers
  /\ listing < MaxLoads
  /\ saving' = saving - 1
  /\ saveStatus' = "Pizza saved successfully!"
  /\ statusTimers' = statusTimers + 1
  /\ listing' = listing + 1
  /\ lastOp' = Op("saveAccepted", Null)
  /\ UNCHANGED <<hvars, svars, deleting>>
  /\ UNCHANGED <<selectedToppings, animation, filter, rotationRef, rafRef,
                 rafId, rafQueue,
                 elapsed, canvas>>
  /\ UnchangedExport

(***************************************************************************)
(* loadSavedPizzas and handleDeletePizza, and their continuations          *)
(***************************************************************************)
\* what the list and delete handlers never touch
UnchangedByLists ==
  /\ UNCHANGED <<hvars, svars>>
  /\ UNCHANGED <<selectedToppings, animation, filter, rotationRef, rafRef,
                 rafId, rafQueue,
                 elapsed, canvas, saveStatus, statusTimers, saving>>
  /\ UnchangedExport

\* getUserPizzas resolved with { pizzas }: setSavedPizzas, whose rows are the
\* records handleLoadPizza is given
ListLoaded ==
  /\ listing > 0
  /\ listing' = listing - 1
  /\ lastOp' = Op("listLoaded", Null)
  /\ UNCHANGED deleting
  /\ UnchangedByLists

\* the errors getUserPizzas returns
ListErrors == {"Not authenticated", "Failed to fetch pizzas"}

\* getUserPizzas resolved with { error }: result.pizzas is undefined
ListFailed(error) ==
  /\ listing > 0
  /\ listing' = listing - 1
  /\ lastOp' = Op("listFailed", error)
  /\ UNCHANGED deleting
  /\ UnchangedByLists

\* the click on a saved pizza's Delete
HandleDeletePizza ==
  /\ deleting < MaxDeletes
  /\ deleting' = deleting + 1
  /\ lastOp' = Op("handleDeletePizza", Null)
  /\ UNCHANGED listing
  /\ UnchangedByLists

\* the errors deletePizza returns
DeleteErrors ==
  {"Not authenticated", "Pizza not found or unauthorized",
   "Failed to delete pizza"}

\* deletePizza resolved with { error }
DeleteFailed(error) ==
  /\ deleting > 0
  /\ deleting' = deleting - 1
  /\ lastOp' = Op("deleteFailed", error)
  /\ UNCHANGED listing
  /\ UnchangedByLists

\* deletePizza resolved with { success }: the list is loaded again
DeleteDone ==
  /\ deleting > 0
  /\ listing < MaxLoads
  /\ deleting' = deleting - 1
  /\ listing' = listing + 1
  /\ lastOp' = Op("deleteDone", Null)
  /\ UnchangedByLists

(***************************************************************************)
(* The half topology: the mode switch and the two topping sections         *)
(***************************************************************************)
\* the toggle of one half's set: add below the cap, remove when present
toggleHalfSet(prev, topping) ==
  IF topping \in prev THEN prev \ {topping}
  ELSE IF Cardinality(prev) < MAX_TOPPINGS THEN prev \cup {topping}
  ELSE prev

\* the toggle of a half with one cap over both halves together
toggleHalfSharedCap(half, side, topping) ==
  LET own == IF side = "left" THEN half.leftToppings ELSE half.rightToppings
      total == Cardinality(half.leftToppings) + Cardinality(half.rightToppings)
      next == IF topping \in own THEN own \ {topping}
              ELSE IF total < MAX_TOPPINGS THEN own \cup {topping}
              ELSE own
  IN  IF side = "left" THEN [half EXCEPT !.leftToppings = next]
      ELSE [half EXCEPT !.rightToppings = next]

\* a click in the Left Half or Right Half section
toggleHalf(half, side, topping) ==
  IF side = "left"
    THEN [half EXCEPT !.leftToppings = toggleHalfSet(@, topping)]
    ELSE [half EXCEPT !.rightToppings = toggleHalfSet(@, topping)]

ToggleHalfTopping(side, topping) ==
  /\ mode = "half"
  /\ LET next == toggleHalf(HalfInfo, side, topping)
     IN  /\ leftToppings' = next.leftToppings
         /\ rightToppings' = next.rightToppings
         /\ AnimationEffect(selectedToppings, animation, filter, mode, next)
  /\ lastOp' = Op("toggleHalfTopping",
                  [side |-> side, id |-> topping, left |-> leftToppings,
                   right |-> rightToppings])
  /\ UNCHANGED <<mode, svars>>
  /\ UNCHANGED <<selectedToppings, animation, filter>>
  /\ UnchangedExport /\ UnchangedStatus

\* a click on Whole or Half & Half
SetMode(pmode) ==
  /\ mode' = pmode
  /\ AnimationEffect(selectedToppings, animation, filter, pmode, HalfInfo)
  /\ lastOp' = Op("setMode", pmode)
  /\ UNCHANGED <<leftToppings, rightToppings, svars>>
  /\ UNCHANGED <<selectedToppings, animation, filter>>
  /\ UnchangedExport /\ UnchangedStatus

(***************************************************************************)
(* The server actions on the Pizza table                                   *)
(***************************************************************************)
Users == {"u1", "u2"}

\* auth(): a session with a user id, or none
Sessions == Users \cup {Null}

\* a name of n characters
NameOf(n) == [i \in 1..n |-> "a"]

\* an optional field is present in the payload
Has(data, field) == field \in DOMAIN data

\* payloads handed to savePizza: three the schema accepts (the first as the
\* component under src sends it, without mode and halves), then one per
\* constraint the schema enforces
SaveInputs ==
  {[name |-> NameOf(1), toppings |-> <<"pepperoni", "olive">>,
    animation |-> "cw", filter |-> Null],
   [name |-> NameOf(2), toppings |-> <<>>, mode |-> "half",
    leftToppings |-> <<"pepperoni">>, rightToppings |-> <<>>,
    animation |-> Null, filter |-> "neon"],
   [name |-> NameOf(50),
    toppings |-> <<"pepperoni", "olive", "ham", "bacon">>, mode |-> "whole",
    leftToppings |-> <<>>, rightToppings |-> <<>>, animation |-> "flip"],
   [name |-> NameOf(0), toppings |-> <<>>],
   [name |-> NameOf(51), toppings |-> <<>>],
   [name |-> NameOf(1),
    toppings |-> <<"pepperoni", "olive", "ham", "bacon", "onion">>],
   [name |-> NameOf(1), toppings |-> <<>>, mode |-> "half",
    leftToppings |-> <<"pepperoni", "olive", "ham", "bacon", "onion">>],
   [name |-> NameOf(1), toppings |-> <<>>, mode |-> "half",
    rightToppings |-> <<"pepperoni", "olive", "ham", "bacon", "onion">>],
   [name |-> NameOf(1), toppings |-> <<>>, mode |-> "quarter"],
   [name |-> NameOf(1), toppings |-> <<>>, animation |-> "spin"],
   [name |-> NameOf(1), toppings |-> <<>>, filter |-> "sepia"]}

\* the schema with the cap on the toppings list left out
pizzaSchemaNoToppingsMax(data) ==
  /\ Len(data.name) >= 1 /\ Len(data.name) <= 50
  /\ Has(data, "mode") => data.mode \in {"whole", "half"}
  /\ Has(data, "leftToppings") => Len(data.leftToppings) <= 4
  /\ Has(data, "rightToppings") => Len(data.rightToppings) <= 4
  /\ Has(data, "animation") =>
       data.animation \in {"cw", "ccw", "wave", "wave-ccw", "flip", Null}
  /\ Has(data, "filter") => data.filter \in {"mono", "neon", "negative", Null}

\* pizzaSchema.safeParse(data).success
pizzaSchema(data) ==
  /\ Len(data.name) >= 1 /\ Len(data.name) <= 50
  /\ Len(data.toppings) <= 4
  /\ Has(data, "mode") => data.mode \in {"whole", "half"}
  /\ Has(data, "leftToppings") => Len(data.leftToppings) <= 4
  /\ Has(data, "rightToppings") => Len(data.rightToppings) <= 4
  /\ Has(data, "animation") =>
       data.animation \in {"cw", "ccw", "wave", "wave-ccw", "flip", Null}
  /\ Has(data, "filter") => data.filter \in {"mono", "neon", "negative", Null}

\* a field the payload left out
Undefined == "undefined"

\* pizzaSchema.safeParse(data).data: the defaults of the optional fields
validatedData(data) ==
  [name |-> data.name, toppings |-> data.toppings,
   mode |-> IF Has(data, "mode") THEN data.mode ELSE "whole",
   leftToppings |-> IF Has(data, "leftToppings") THEN data.leftToppings
                    ELSE <<>>,
   rightToppings |-> IF Has(data, "rightToppings") THEN data.rightToppings
                     ELSE <<>>,
   animation |-> IF Has(data, "animation") THEN data.animation ELSE Undefined,
   filter |-> IF Has(data, "filter") THEN data.filter ELSE Undefined]

\* JSON.stringify of a string array, as its tokens: [ s1 , s2 ... ]
JSONstringify(arr) ==
  <<"[">> \o [i \in 1..(2 * Len(arr) - 1) |->
                IF i % 2 = 1 THEN arr[(i + 1) \div 2] ELSE ","] \o <<"]">>

\* JSON.parse of such a text: the tokens between the separators
JSONparse(text) == [i \in 1..((Len(text) - 1) \div 2) |-> text[2 * i]]

\* a text column holding NULL: no text at all (a JSON text has two tokens)
DbNull == <<>>

\* value ?? null
OrNull(value) == IF value = Undefined THEN Null ELSE value

\* the row prisma.pizza.create writes; the database stamps id and createdAt
PizzaRow(id, userId, createdAt, data) ==
  [id |-> id, userId |-> userId, createdAt |-> createdAt, name |-> data.name,
   toppings |-> JSONstringify(data.toppings), mode |-> data.mode,
   leftToppings |-> IF Len(data.leftToppings) > 0
                    THEN JSONstringify(data.leftToppings) ELSE DbNull,
   rightToppings |-> IF Len(data.rightToppings) > 0
                     THEN JSONstringify(data.rightToppings) ELSE DbNull,
   animation |-> OrNull(data.animation), filter |-> OrNull(data.filter)]

\* a half list read back as empty whatever the column holds
parseHalfDropped(text) == <<>>

\* pizza.leftToppings ? JSON.parse(pizza.leftToppings) : []
parseHalf(text) == IF text # DbNull THEN JSONparse(text) ELSE <<>>

\* the record getUserPizzas maps a raw row to
parsePizza(pizza) ==
  [id |-> pizza.id, userId |-> pizza.userId, createdAt |-> pizza.createdAt,
   name |-> pizza.name, toppings |-> JSONparse(pizza.toppings),
   mode |-> IF pizza.mode = Null THEN "whole" ELSE pizza.mode,
   leftToppings |-> parseHalf(pizza.leftToppings),
   rightToppings |-> parseHalf(pizza.rightToppings),
   animation |-> pizza.animation, filter |-> pizza.filter]

\* prisma.pizza.findUnique({ where: { id } }): the rows with that id
findUnique(id) == {p \in store : p.id = id}

\* the orders in which a query may return these rows, newest first; rows
\* stamped with the same time come in either order
OrderByCreatedAtDesc(rows) ==
  LET n == Cardinality(rows)
  IN  {s \in [1..n -> rows] :
         /\ \A i, j \in 1..n : i # j => s[i] # s[j]
         /\ \A i \in 1..(n - 1) : s[i].createdAt >= s[i + 1].createdAt}

\* the query without its where clause
findManyAllUsers(userId) == OrderByCreatedAtDesc(store)

\* prisma.pizza.findMany({ where: { userId }, orderBy: { createdAt: 'desc' } })
findMany(userId) == OrderByCreatedAtDesc({p \in store : p.userId = userId})

UnchangedComponent == UNCHANGED <<cvars, hvars>>

\* savePizza(data) under a session; create may fail in the database, whose
\* clock never runs backwards
SavePizza(session, data) ==
  /\ \E result \in
         IF session = Null THEN {"Not authenticated"}
         ELSE IF ~pizzaSchema(data) THEN {"Invalid pizza data"}
         ELSE {"pizza", "Failed to save pizza"} :
       /\ IF result = "pizza"
            THEN /\ nextId <= MaxPizzas
                 /\ \E createdAt \in {dbNow, dbNow + 1} :
                      /\ store' = store \cup
                           {PizzaRow(nextId, session, createdAt,
                                     validatedData(data))}
                      /\ dbNow' = createdAt
                 /\ nextId' = nextId + 1
            ELSE UNCHANGED <<store, nextId, dbNow>>
       /\ lastOp' = Op("savePizza", [session |-> session, pizzaId |-> nextId,
                                     result |-> result, data |-> data])
  /\ UNCHANGED reqs
  /\ UnchangedComponent

\* getUserPizzas() under a session; findMany may fail in the database
GetUserPizzas(session) ==
  /\ \E result \in IF session = Null THEN {"Not authenticated"}
                   ELSE {"pizzas", "Failed to fetch pizzas"} :
       \E rawPizzas \in IF result = "pizzas" THEN findMany(session)
                        ELSE {<<>>} :
         lastOp' = Op("getUserPizzas",
                      [session |-> session, pizzaId |-> 0, result |-> result,
                       pizzas |-> [i \in 1..Len(rawPizzas) |->
                                     parsePizza(rawPizzas[i])]])
  /\ UNCHANGED <<store, nextId, reqs, dbNow>>
  /\ UnchangedComponent

\* how many calls of this session for this id are in flight
Copies(session, pizzaId) ==
  Cardinality({r \in reqs : r.session = session /\ r.pizzaId = pizzaId})

\* the lookup's verdict with the ownership test left out
deleteAuthorizedAnyUser(found, session) == found # {}

\* !(!pizza || pizza.userId !== session.user.id)
deleteAuthorized(found, session) ==
  found # {} /\ \A p \in found : p.userId = session

\* deletePizza(pizzaId) up to its lookup: the session check, findUnique and
\* the ownership check; findUnique may fail in the database
DeletePizzaLookup(session, pizzaId) ==
  /\ \E outcome \in
         IF session = Null THEN {"Not authenticated"}
         ELSE IF deleteAuthorized(findUnique(pizzaId), session)
           THEN {"found", "Failed to delete pizza"}
         ELSE {"Pizza not found or unauthorized", "Failed to delete pizza"} :
       IF outcome = "found"
         THEN /\ Cardinality(reqs) < MaxCalls
              /\ reqs' = reqs \cup {[session |-> session, pizzaId |-> pizzaId,
                                      copy |-> Copies(session, pizzaId) + 1]}
              /\ lastOp' = Op("deletePizzaLookup",
                              [session |-> session, pizzaId |-> pizzaId,
                               result |-> outcome])
         ELSE /\ UNCHANGED reqs
              /\ lastOp' = Op("deletePizza",
                              [session |-> session, pizzaId |-> pizzaId,
                               result |-> outcome])
  /\ UNCHANGED <<store, nextId, dbNow>>
  /\ UnchangedComponent

\* deletePizza from prisma.pizza.delete on: it rejects when the row is gone
\* (or the database fails), and the catch returns the error; of equal calls
\* in flight the one counted last stands for any of them
DeletePizzaDelete(call) ==
  /\ call \in reqs
  /\ call.copy = Copies(call.session, call.pizzaId)
  /\ reqs' = reqs \ {call}
  /\ \E result \in
         IF findUnique(call.pizzaId) = {} THEN {"Failed to delete pizza"}
         ELSE {"success", "Failed to delete pizza"} :
       /\ store' = IF result = "success" THEN store \ findUnique(call.pizzaId)
                   ELSE store
       /\ lastOp' = Op("deletePizza",
                       [session |-> call.session, pizzaId |-> call.pizzaId,
                        result |-> result])
  /\ UNCHANGED <<nextId, dbNow>>
  /\ UnchangedComponent

(***************************************************************************)
(* The component after its first render and effect                         *)
(***************************************************************************)
\* nothing remembered yet
NoSnap ==
  [taken |-> FALSE, fresh |-> FALSE, tops |-> <<>>, animation |-> Null,
   filter |-> Null, elapsed |-> 0, rotation |-> 0, frame |-> NoFrame]

InitComponent ==
  /\ selectedToppings = <<>>
  /\ animation = Null
  /\ filter = Null
  /\ mode = "whole"
  /\ leftToppings = {}
  /\ rightToppings = {}
  /\ rotationRef = 0
  /\ rafRef = NoClosure
  /\ rafId = 0
  /\ rafQueue = {}
  /\ elapsed = 0
  /\ canvas = StaticFrame(<<>>, Null, "whole",
                          [leftToppings |-> {}, rightToppings |-> {}])
  /\ exporting = FALSE
  /\ exportPc = "idle"
  /\ exportCl = NoClosure
  /\ frames = <<>>
  /\ saveStatus = ""
  /\ statusTimers = 0
  /\ saving = 0
  /\ listing = 1
  /\ deleting = 0
  /\ lastOp = Op("mount", Null)
  /\ snap = NoSnap
  /\ steps = 0

InitStore ==
  /\ store = {}
  /\ nextId = 1
  /\ reqs = {}
  /\ dbNow = 0

\* no function called yet
NoCall == [fn |-> "none", done |-> TRUE]

InitCalls ==
  /\ fnCall = NoCall
  /\ fnRet = <<>>

Init == InitComponent /\ InitStore /\ InitCalls

\* three records of the saved list
SavedSamples ==
  {[toppings |-> <<>>, animation |-> Null, filter |-> Null],
   [toppings |-> <<ToppingIds[1]>>, animation |-> "ccw", filter |-> "neon"],
   [toppings |-> <<ToppingIds[1], ToppingIds[2]>>, animation |-> "wave",
    filter |-> Null]}

\* a step of the component that is not counted and remembers no frame
Quiet == UNCHANGED <<snap, steps, pvars>>

(***************************************************************************)
(* SpecSel: the topping buttons of the whole topology                      *)
(***************************************************************************)
NextSel ==
  \/ \E topping \in Toppings : ToggleTopping(topping) /\ Quiet

SpecSel == Init /\ [][NextSel]_vars

\* C1: after every toggle of any sequence of toggles that starts from the
\* empty selection, the selection set has at most 4 members.
C1_SelectionAtMostFour == Cardinality(Range(selectedToppings)) <= 4

\* a toggle of a fifth topping arrived at a full selection
C1_Witness ==
  /\ lastOp.op = "toggleTopping"
  /\ Cardinality(Range(lastOp.arg.prev)) = 4
  /\ lastOp.arg.id \notin Range(lastOp.arg.prev)
  /\ Cardinality(Range(selectedToppings)) = 4

\* C2: toggleTopping(id) on a selection S yields S without id when id is in S
\* (also when S has 4 members), S plus id when id is not in S and S has fewer
\* than 4 members, and exactly S when id is not in S and S has 4 members.
C2_ToggleCases ==
  lastOp.op = "toggleTopping" =>
    LET S == Range(lastOp.arg.prev)
        id == lastOp.arg.id
        now == Range(selectedToppings)
    IN  /\ id \in S => now = S \ {id}
        /\ (id \notin S /\ Cardinality(S) < 4) => now = S \cup {id}
        /\ (id \notin S /\ Cardinality(S) = 4) =>
              selectedToppings = lastOp.arg.prev
        /\ Len(selectedToppings) = Cardinality(now)

\* a member was toggled out of a full selection
C2_Witness ==
  /\ lastOp.op = "toggleTopping"
  /\ Cardinality(Range(lastOp.arg.prev)) = 4
  /\ lastOp.arg.id \in Range(lastOp.arg.prev)
  /\ Cardinality(Range(selectedToppings)) = 3

(***************************************************************************)
(* SpecHalf: the topping buttons of the half topology                      *)
(***************************************************************************)
NextHalf ==
  \/ \E pmode \in PizzaModes : SetMode(pmode) /\ Quiet
  \/ \E side \in {"left", "right"}, topping \in Toppings :
       ToggleHalfTopping(side, topping) /\ Quiet

SpecHalf == Init /\ [][NextHalf]_vars

\* C3: in half topology a toggle on one half never changes the other half's
\* set, and each half is capped at 4 on its own: a full left set does not
\* block adding to the right set (nor a full right set adding to the left).
C3_HalvesIndependent ==
  /\ Cardinality(leftToppings) <= 4
  /\ Cardinality(rightToppings) <= 4
  /\ lastOp.op = "toggleHalfTopping" =>
       LET a == lastOp.arg
           own == IF a.side = "left" THEN a.left ELSE a.right
           ownNow == IF a.side = "left" THEN leftToppings ELSE rightToppings
       IN  /\ a.side = "left" => rightToppings = a.right
           /\ a.side = "right" => leftToppings = a.left
           /\ a.id \in own => ownNow = own \ {a.id}
           /\ (a.id \notin own /\ Cardinality(own) < 4) =>
                ownNow = own \cup {a.id}
           /\ (a.id \notin own /\ Cardinality(own) = 4) => ownNow = own

\* a topping was added to the right half while the left half was full
C3_Witness ==
  /\ lastOp.op = "toggleHalfTopping"
  /\ lastOp.arg.side = "right"
  /\ Cardinality(lastOp.arg.left) = 4
  /\ Cardinality(leftToppings) = 4
  /\ lastOp.arg.id \notin lastOp.arg.right
  /\ rightToppings = lastOp.arg.right \cup {lastOp.arg.id}

(***************************************************************************)
(* SpecDrv: the mode buttons, Load, and the frame driver                   *)
(***************************************************************************)
NextDrv ==
  \/ \E topping \in FrameToppings : ToggleTopping(topping) /\ Quiet
  \/ \E type \in AnimationTypes : ToggleAnimation(type) /\ Quiet
  \/ \E type \in FilterTypes : ToggleFilter(type) /\ Quiet
  \/ \E pizza \in SavedSamples : HandleLoadPizza(pizza) /\ Quiet
  \/ AnimateWave /\ Quiet
  \/ AnimateFlip /\ Quiet
  \/ AnimateRotate /\ Quiet

SpecDrv == Init /\ [][NextDrv]_vars

\* C4: selecting an animation (filter) mode different from the active one
\* replaces it, selecting the active one again returns that state to none,
\* so each state holds at most one value; and selecting an animation mode
\* never changes the filter mode, nor a filter mode the animation mode.
C4_ModesExclusiveIndependent ==
  [][/\ lastOp'.op = "toggleAnimation" =>
          /\ animation = lastOp'.arg => animation' = Null
          /\ animation # lastOp'.arg => animation' = lastOp'.arg
          /\ filter' = filter
     /\ lastOp'.op = "toggleFilter" =>
          /\ filter = lastOp'.arg => filter' = Null
          /\ filter # lastOp'.arg => filter' = lastOp'.arg
          /\ animation' = animation]_vars

\* the active animation was selected again while a filter was active
C4_Witness ==
  /\ lastOp.op = "toggleAnimation"
  /\ lastOp.arg \in AnimationTypes
  /\ animation = Null
  /\ filter \in FilterTypes

(***************************************************************************)
(* Spec: the component's drawing, export and save handlers, callbacks and *)
(* continuations, in runs of at most MaxEvents steps                       *)
(***************************************************************************)
\* a counted step
Counted ==
  steps < MaxEvents /\ steps' = steps + 1 /\ UNCHANGED <<snap, pvars>>

Next ==
  \/ \E topping \in {ToppingIds[1]} : ToggleTopping(topping) /\ Counted
  \/ \E type \in ComponentAnimations : ToggleAnimation(type) /\ Counted
  \/ \E type \in FilterTypes : ToggleFilter(type) /\ Counted
  \/ \E pizza \in SavedSamples : HandleLoadPizza(pizza) /\ Counted
  \/ AnimateWave /\ Counted
  \/ AnimateRotate /\ Counted
  \/ HandleExportGif /\ Counted
  \/ ExportImportFail /\ Counted
  \/ ExportNoContext /\ Counted
  \/ ExportCapture /\ Counted
  \/ \E i \in 0..MaxFailFrame : ExportCaptureFail(i) /\ Counted
  \/ ExportEncodeOk /\ Counted
  \/ ExportEncodeFail /\ Counted
  \/ ClearStatus /\ Counted
  \/ \E pizzaName \in {"", "Friday Night Special"} :
       HandleSavePizza(pizzaName) /\ Counted
  \/ \E error \in SaveErrors : SaveRejected(error) /\ Counted
  \/ SaveAccepted /\ Counted

Spec == Init /\ [][Next]_vars

\* the handlers after which the animation effect has run
EffectOps ==
  {"mount", "toggleTopping", "toggleAnimation", "toggleFilter",
   "handleLoadPizza"}

\* C5: in every state where the animation mode is none the rotation
\* accumulator is 0, and when the frame driver has just run in such a state
\* the surface shows the static frame of the current selection and filter at
\* rotation 0, whatever rotation had been accumulated before.
C5_NoneResetsAccumulator ==
  animation = Null =>
    /\ rotationRef = 0
    /\ lastOp.op \in EffectOps =>
         /\ canvas.branch = "rotate"
         /\ canvas.rot = [mrad |-> 0, turn60 |-> 0]
         /\ canvas.content.tops = selectedToppings
         /\ canvas.filt = filter

\* the animation was switched off after rotation had accumulated
C5_Witness ==
  /\ lastOp.op = "toggleAnimation"
  /\ lastOp.rot # 0
  /\ animation = Null
  /\ rotationRef = 0
  /\ canvas.rot = ZeroAngle

\* C6: the rotation accumulator changes only by a live frame tick in cw or
\* ccw mode, by exactly +0.008 (cw) or -0.008 (ccw), and by the reset to 0
\* on mode none; every other step (wave or flip tick, topping toggle, filter
\* change, load, save, every step of a complete or failed export) leaves it
\* unchanged.
C6_AccumulatorChanges ==
  [][/\ (lastOp'.op = "animate" /\ lastOp'.arg = "cw") =>
          rotationRef' = rotationRef + 8
     /\ (lastOp'.op = "animate" /\ lastOp'.arg = "ccw") =>
          rotationRef' = rotationRef - 8
     /\ ~(lastOp'.op = "animate" /\ lastOp'.arg \in {"cw", "ccw"}) =>
          \/ rotationRef' = rotationRef
          \/ animation' = Null /\ rotationRef' = 0]_vars

\* an export captured its frames with rotation accumulated before it
C6_Witness ==
  /\ lastOp.op = "exportCapture"
  /\ rotationRef # 0
  /\ lastOp.rot = rotationRef

(***************************************************************************)
(* SpecDet: the frame driver, remembering one of the frames it drew        *)
(***************************************************************************)
\* the step drew a frame: a live tick, or the effect's static draw
FrameDrawn == lastOp.op = "animate" \/ (animation = Null /\ lastOp.op \in EffectOps)

\* the frame just drawn may be remembered, once, with the state it was drawn in
Remember ==
  /\ snap' \in
       IF snap.taken THEN {[snap EXCEPT !.fresh = FALSE]}
       ELSE IF FrameDrawn' THEN
         {snap,
          [taken |-> TRUE, fresh |-> TRUE, tops |-> selectedToppings',
           animation |-> animation', filter |-> filter', elapsed |-> elapsed',
           rotation |-> rotationRef', frame |-> canvas']}
       ELSE {snap}
  /\ UNCHANGED <<steps, pvars>>

NextDet ==
  \/ \E type \in AnimationTypes : ToggleAnimation(type) /\ Remember
  \/ \E type \in {"mono"} : ToggleFilter(type) /\ Remember
  \/ AnimateWave /\ Remember
  \/ AnimateFlip /\ Remember
  \/ AnimateRotate /\ Remember

SpecDet == Init /\ [][NextDet]_vars

\* the remembered frame was drawn for the selection, animation mode, elapsed
\* time and filter mode of the frame on the surface
SameFourInputs ==
  /\ snap.taken
  /\ FrameDrawn
  /\ snap.tops = selectedToppings
  /\ snap.animation = animation
  /\ snap.elapsed = elapsed
  /\ snap.filter = filter

\* C7 as stated: two frames drawn for the same selection, animation mode,
\* elapsed time and filter mode are the same frame, however many frames were
\* rendered before them.
C7_FourInputsDetermineFrame == SameFourInputs => snap.frame = canvas

\* C7 as amended: two frames drawn for the same selection, animation mode,
\* elapsed time, filter mode and rotation accumulator are the same frame.
C7_InputsAndAccumulatorDetermineFrame ==
  (SameFourInputs /\ snap.rotation = rotationRef) => snap.frame = canvas

\* a later live frame was drawn for the inputs of the remembered one
C7_Witness ==
  /\ SameFourInputs
  /\ ~snap.fresh
  /\ lastOp.op = "animate"
  /\ snap.rotation = rotationRef
  /\ snap.frame = canvas

\* C8: when a GIF export fails (module load, frame capture or encoding), the
\* failure is caught and reported through the status message, the export is
\* over, and the live surface shows the frame it showed before the failing
\* step, never an export sample.
C8_FailedExportRestoresSurface ==
  [][lastOp'.op \in {"exportImportFail", "exportCaptureFail",
                     "exportEncodeFail"} =>
       /\ saveStatus' = "GIF export failed"
       /\ ~exporting'
       /\ canvas' = canvas]_vars

(***************************************************************************)
(* SpecExp: the animation buttons, the frame driver and the GIF export     *)
(***************************************************************************)
NextExp ==
  \/ \E type \in AnimationTypes : ToggleAnimation(type) /\ Quiet
  \/ AnimateWave /\ Quiet
  \/ AnimateFlip /\ Quiet
  \/ AnimateRotate /\ Quiet
  \/ HandleExportGif /\ Quiet
  \/ ExportImportFail /\ Quiet
  \/ ExportNoContext /\ Quiet
  \/ ExportCapture /\ Quiet
  \/ \E i \in 0..MaxFailFrame : ExportCaptureFail(i) /\ Quiet
  \/ ExportEncodeOk /\ Quiet
  \/ ExportEncodeFail /\ Quiet
  \/ ClearStatus /\ Quiet

SpecExp == Init /\ [][NextExp]_vars

\* the samples are evenly spaced from 0 and their count times the spacing is span
EvenlySpaced(times, span) ==
  /\ times[1] = 0
  /\ \A k \in 1..(Len(times) - 1) : times[k + 1] - times[k] = times[2] - times[1]
  /\ Len(times) * (times[2] - times[1]) = span

StoreInputs == {data \in SaveInputs : data.toppings = <<"pepperoni", "olive">>}

NextStore ==
  \/ \E session \in Sessions, data \in StoreInputs :
       SavePizza(session, data) /\ Quiet
  \/ \E session \in Sessions : GetUserPizzas(session) /\ Quiet
  \/ \E session \in Sessions, pizzaId \in 1..MaxPizzas :
       DeletePizzaLookup(session, pizzaId) /\ Quiet
  \/ \E call \in reqs : DeletePizzaDelete(call) /\ Quiet

SpecStore == Init /\ [][NextStore]_vars

\* C10: a stored creation is removed only by a deletePizza call that returns
\* success under a session whose user id is the record's owner, and that call
\* removes that record alone; a deletePizza call without a session, by a user
\* who does not own a record with that id, or of an id no record has, returns
\* an error and leaves the store unchanged.
C10_DeleteOnlyByOwner ==
  [][/\ \A p \in store :
          p \notin store' =>
            /\ lastOp'.op = "deletePizza"
            /\ lastOp'.arg.result = "success"
            /\ lastOp'.arg.session = p.userId
            /\ lastOp'.arg.pizzaId = p.id
            /\ store' = store \ {p}
     /\ (/\ lastOp'.op = "deletePizza"
         /\ ~\E p \in store : /\ p.id = lastOp'.arg.pizzaId
                              /\ p.userId = lastOp'.arg.session) =>
          /\ lastOp'.arg.result # "success"
          /\ store' = store]_vars

\* a user's delete of another user's record was refused and the record stays
C10_Witness ==
  /\ lastOp.op = "deletePizza"
  /\ lastOp.arg.session \in Users
  /\ lastOp.arg.result = "Pizza not found or unauthorized"
  /\ \E p \in store : p.id = lastOp.arg.pizzaId /\ p.userId # lastOp.arg.session

\* the rows a user owns
OwnedBy(rows, user) == {p \in rows : p.userId = user}

\* C11: getUserPizzas returns exactly the records whose owner is the calling
\* session's user, each once and newest first; a save or delete by one user
\* leaves the records every other user lists as they were; a caller without
\* a session gets an error and no records.
C11_ListIsOwnRecords ==
  /\ [](lastOp.op = "getUserPizzas" =>
          LET pizzas == lastOp.arg.pizzas
              n == Len(pizzas)
          IN  /\ lastOp.arg.session = Null =>
                   lastOp.arg.result = "Not authenticated"
              /\ lastOp.arg.result # "pizzas" => n = 0
              /\ lastOp.arg.result = "pizzas" =>
                   /\ lastOp.arg.session \in Users
                   /\ n = Cardinality(OwnedBy(store, lastOp.arg.session))
                   /\ {pizzas[i].id : i \in 1..n} =
                        {p.id : p \in OwnedBy(store, lastOp.arg.session)}
                   /\ \A i \in 1..n : pizzas[i].userId = lastOp.arg.session
                   /\ \A i \in 1..(n - 1) :
                        pizzas[i].createdAt >= pizzas[i + 1].createdAt)
  /\ [][\A user \in Users :
          (/\ lastOp'.op \in {"savePizza", "deletePizza", "deletePizzaLookup"}
           /\ lastOp'.arg.session # user) =>
            OwnedBy(store', user) = OwnedBy(store, user)]_vars

\* a user lists a record of their own while the other user has one stored
C11_Witness ==
  /\ lastOp.op = "getUserPizzas"
  /\ lastOp.arg.result = "pizzas"
  /\ Len(lastOp.arg.pizzas) >= 1
  /\ \E p \in store : p.userId # lastOp.arg.session

(***************************************************************************)
(* SpecSave: savePizza with every payload, and getUserPizzas               *)
(***************************************************************************)
\* the callers of this specification: a signed-in user and nobody
SaveSessions == {"u1", Null}

NextSave ==
  \/ \E session \in SaveSessions, data \in SaveInputs :
       SavePizza(session, data) /\ Quiet
  \/ \E session \in SaveSessions : GetUserPizzas(session) /\ Quiet

SpecSave == Init /\ [][NextSave]_vars

\* a payload breaks a field constraint
ViolatesConstraints(data) ==
  \/ Len(data.name) < 1 \/ Len(data.name) > 50
  \/ Len(data.toppings) > 4
  \/ Has(data, "leftToppings") /\ Len(data.leftToppings) > 4
  \/ Has(data, "rightToppings") /\ Len(data.rightToppings) > 4
  \/ Has(data, "mode") /\ data.mode \notin {"whole", "half"}
  \/ /\ Has(data, "animation")
     /\ data.animation \notin {"cw", "ccw", "wave", "wave-ccw", "flip", Null}
  \/ /\ Has(data, "filter")
     /\ data.filter \notin {"mono", "neon", "negative", Null}

\* the entries of a stored list column
Entries(column) == IF column = DbNull THEN 0 ELSE (Len(column) - 1) \div 2

\* C12: every stored record has a name of 1 to 50 characters, at most 4
\* entries in each of its three selection lists, an animation among cw, ccw,
\* wave, wave-ccw, flip and null, a filter among mono, neon, negative and
\* null, and the topology whole or half; savePizza with an input that breaks
\* one of these returns an error and creates no record.
C12_StoredRecordsValid ==
  /\ [](\A p \in store :
          /\ Len(p.name) >= 1 /\ Len(p.name) <= 50
          /\ Entries(p.toppings) <= 4
          /\ Entries(p.leftToppings) <= 4
          /\ Entries(p.rightToppings) <= 4
          /\ p.animation \in {"cw", "ccw", "wave", "wave-ccw", "flip", Null}
          /\ p.filter \in {"mono", "neon", "negative", Null}
          /\ p.mode \in {"whole", "half"})
  /\ [][(lastOp'.op = "savePizza" /\ ViolatesConstraints(lastOp'.arg.data)) =>
          /\ lastOp'.arg.result \in {"Not authenticated", "Invalid pizza data"}
          /\ store' = store]_vars

\* a signed-in user's save of five toppings was refused beside a stored record
C12_Witness ==
  /\ lastOp.op = "savePizza"
  /\ lastOp.arg.session \in Users
  /\ Len(lastOp.arg.data.toppings) > 4
  /\ lastOp.arg.result = "Invalid pizza data"
  /\ store # {}

\* the selection set a payload carries for an optional list
GivenSet(data, field) == IF Has(data, field) THEN Range(data[field]) ELSE {}

\* the value a payload carries for an optional field, null when left out
GivenOrNull(data, field) ==
  IF Has(data, field) THEN data[field] ELSE Null

\* C13: the list a user gets right after a successful save holds the saved
\* record with the topology, the whole, left and right selection sets (empty
\* ones too), the animation and the filter (null too) that were saved.
C13_SaveListRoundTrip ==
  [][(/\ lastOp.op = "savePizza"
      /\ lastOp.arg.result = "pizza"
      /\ lastOp'.op = "getUserPizzas"
      /\ lastOp'.arg.result = "pizzas"
      /\ lastOp'.arg.session = lastOp.arg.session) =>
       \E i \in 1..Len(lastOp'.arg.pizzas) :
         LET listed == lastOp'.arg.pizzas[i]
             data == lastOp.arg.data
         IN  /\ listed.id = lastOp.arg.pizzaId
             /\ listed.mode = IF Has(data, "mode") THEN data.mode ELSE "whole"
             /\ Range(listed.toppings) = Range(data.toppings)
             /\ Range(listed.leftToppings) = GivenSet(data, "leftToppings")
             /\ Range(listed.rightToppings) = GivenSet(data, "rightToppings")
             /\ listed.animation = GivenOrNull(data, "animation")
             /\ listed.filter = GivenOrNull(data, "filter")]_vars

\* a listed half-and-half record with one half empty and no animation
C13_Witness ==
  /\ lastOp.op = "getUserPizzas"
  /\ lastOp.arg.result = "pizzas"
  /\ \E i \in 1..Len(lastOp.arg.pizzas) :
       /\ lastOp.arg.pizzas[i].mode = "half"
       /\ lastOp.arg.pizzas[i].leftToppings = <<"pepperoni">>
       /\ lastOp.arg.pizzas[i].rightToppings = <<>>
       /\ lastOp.arg.pizzas[i].animation = Null
       /\ lastOp.arg.pizzas[i].filter = "neon"

(***************************************************************************)
(* SpecPersist: the save, list and delete handlers beside a running        *)
(* rotation, in runs of at most MaxEvents steps                            *)
(***************************************************************************)
NextPersist ==
  \/ \E topping \in {ToppingIds[1]} : ToggleTopping(topping) /\ Counted
  \/ \E type \in {"cw", "ccw"} : ToggleAnimation(type) /\ Counted
  \/ \E type \in {"neon"} : ToggleFilter(type) /\ Counted
  \/ AnimateRotate /\ Counted
  \/ ClearStatus /\ Counted
  \/ \E pizzaName \in {"", "Friday Night Special"} :
       HandleSavePizza(pizzaName) /\ Counted
  \/ \E error \in SaveErrors : SaveRejected(error) /\ Counted
  \/ SaveAccepted /\ Counted
  \/ ListLoaded /\ Counted
  \/ \E error \in ListErrors : ListFailed(error) /\ Counted
  \/ HandleDeletePizza /\ Counted
  \/ \E error \in DeleteErrors : DeleteFailed(error) /\ Counted
  \/ DeleteDone /\ Counted

SpecPersist == Init /\ [][NextPersist]_vars

\* the steps in which a save, a list or a delete failed
PersistenceFailed ==
  \/ lastOp'.op \in {"saveRejected", "listFailed", "deleteFailed"}
  \/ lastOp'.op = "handleSavePizza" /\ lastOp'.arg = ""

\* C14: a save, list or delete that fails (no session, invalid data, a
\* storage error, or an empty name) leaves the selection sets, the topology,
\* the animation, the filter, the rotation accumulator and the surface as
\* they were; a failed save changes the status message only, a failed list or
\* delete not even that, and an empty name sends nothing to the server.
C14_FailureKeepsRenderState ==
  [][PersistenceFailed =>
       /\ UNCHANGED <<selectedToppings, leftToppings, rightToppings, mode,
                      animation, filter, rotationRef, canvas, rafRef, rafId,
                      rafQueue, elapsed>>
       /\ UNCHANGED <<exporting, exportPc, exportCl, frames, statusTimers>>
       /\ lastOp'.op \in {"listFailed", "deleteFailed"} =>
            saveStatus' = saveStatus
       /\ lastOp'.op = "handleSavePizza" =>
            UNCHANGED <<saving, listing, deleting, svars>>]_vars

\* a save failed while a rotation was running with rotation accumulated
C14_Witness ==
  /\ lastOp.op = "saveRejected"
  /\ saveStatus = "Error: Failed to save pizza"
  /\ animation = "cw"
  /\ rotationRef # 0
  /\ lastOp.rot = rotationRef

(***************************************************************************)
(* The renderer's content pass: the canvas calls drawContent makes         *)
(***************************************************************************)
\* a call of a pure function about to be made
Pending(fn, args) == [fn |-> fn, args |-> args, done |-> FALSE]

\* the pending call is one of fn
Calling(fn) == fnCall.fn = fn /\ ~fnCall.done

\* the call returns: the rest of the state stays as it is
Returns(result) ==
  /\ fnCall' = [fnCall EXCEPT !.done = TRUE]
  /\ fnRet' = result
  /\ UNCHANGED <<cvars, hvars, svars, lastOp, snap, steps>>

\* a call of fn has returned
Returned(fn) == fnCall.fn = fn /\ fnCall.done

\* the sequences in a sequence of sequences, one after the other
RECURSIVE Concat(_)
Concat(seqs) == IF seqs = <<>> THEN <<>> ELSE Head(seqs) \o Concat(Tail(seqs))

\* TOPPING_CONFIGS[t]?.type
ToppingType(t) ==
  IF t = "ranch" THEN "overlay"
  ELSE IF t \in Range(ToppingIds) THEN "positioned"
  ELSE "none"

\* the nine slots of a wedge
SLICE_POSITIONS == 0..8

\* the slot sets with five slots for each of two decorations
distributePositionsFiveForTwo(count) ==
  CASE count = 0 -> <<>>
    [] count = 1 -> <<<<0, 1, 4, 6, 8>>>>
    [] count = 2 -> <<<<0, 2, 4, 5, 7>>, <<1, 3, 4, 6, 8>>>>
    [] count = 3 -> <<<<0, 4, 8>>, <<1, 5, 6>>, <<2, 3, 7>>>>
    [] OTHER -> <<<<0, 8>>, <<1, 5>>, <<4, 6>>, <<3, 7>>>>

\* the slot sets whose fourth list names slot 8 a second time
distributePositionsSlotTwice(count) ==
  CASE count = 0 -> <<>>
    [] count = 1 -> <<<<0, 1, 4, 6, 8>>>>
    [] count = 2 -> <<<<0, 2, 5, 7>>, <<1, 3, 6, 8>>>>
    [] count = 3 -> <<<<0, 4, 8>>, <<1, 5, 6>>, <<2, 3, 7>>>>
    [] OTHER -> <<<<0, 8>>, <<1, 5>>, <<4, 6>>, <<3, 8>>>>

\* distributePositions: the slots of each of count point decorations
distributePositions(count) ==
  CASE count = 0 -> <<>>
    [] count = 1 -> <<<<0, 1, 4, 6, 8>>>>
    [] count = 2 -> <<<<0, 2, 5, 7>>, <<1, 3, 6, 8>>>>
    [] count = 3 -> <<<<0, 4, 8>>, <<1, 5, 6>>, <<2, 3, 7>>>>
    [] OTHER -> <<<<0, 8>>, <<1, 5>>, <<4, 6>>, <<3, 7>>>>

\* a canvas call of the content pass
DrawCall(k, t, s, p) == [kind |-> k, topping |-> t, slice |-> s, pos |-> p]

\* a base layer or line: no decoration, no slot
LayerCall(k, s) == DrawCall(k, "", s, -1)

IsPositioned(t) == ToppingType(t) = "positioned"
IsOverlay(t) == ToppingType(t) = "overlay"

\* drawToppingsOnSlices: config.render at every slot of every given wedge for
\* each point decoration, then config.renderSlice on every given wedge for
\* each overlay
drawToppingsOnSlices(toppings, slices) ==
  LET positioned == SelectSeq(toppings, IsPositioned)
      overlays == SelectSeq(toppings, IsOverlay)
      positionSets == distributePositions(Len(positioned))
      positionsOf(tIdx) ==
        IF tIdx <= Len(positionSets) THEN positionSets[tIdx] ELSE <<>>
  IN  Concat([tIdx \in 1..Len(positioned) |->
                Concat([sIdx \in 1..Len(slices) |->
                          [pIdx \in 1..Len(positionsOf(tIdx)) |->
                             DrawCall("render", positioned[tIdx], slices[sIdx],
                                      positionsOf(tIdx)[pIdx])]])])
      \o Concat([tIdx \in 1..Len(overlays) |->
                   [sIdx \in 1..Len(slices) |->
                      DrawCall("renderSlice", overlays[tIdx], slices[sIdx], -1)]])

\* the halves handed to the renderer, or none
HalfPizzaInfo(given, left, right) ==
  [given |-> given, leftToppings |-> left, rightToppings |-> right]

\* the content pass with both halves drawn on every wedge
drawContentCallsNoSplit(tops, pmode, halfInfo) ==
  <<LayerCall("crust", -1), LayerCall("sauce", -1), LayerCall("cheese", -1),
    LayerCall("cheeseRing", -1)>>
  \o (IF pmode = "whole"
        THEN drawToppingsOnSlices(tops, <<0, 1, 2, 3, 4, 5, 6, 7>>)
      ELSE IF halfInfo.given
        THEN drawToppingsOnSlices(halfInfo.leftToppings,
                                  <<0, 1, 2, 3, 4, 5, 6, 7>>)
             \o drawToppingsOnSlices(halfInfo.rightToppings,
                                     <<0, 1, 2, 3, 4, 5, 6, 7>>)
      ELSE <<>>)
  \o [i \in 1..NUM_SLICES |-> LayerCall("sliceLine", i - 1)]
  \o (IF pmode = "half" THEN <<LayerCall("divider", -1)>> ELSE <<>>)

\* drawContent, call by call: crust, sauce, cheese, cheese ring, the
\* decorations, the eight slice lines and, in half topology, the divider
drawContentCalls(tops, pmode, halfInfo) ==
  <<LayerCall("crust", -1), LayerCall("sauce", -1), LayerCall("cheese", -1),
    LayerCall("cheeseRing", -1)>>
  \o (IF pmode = "whole"
        THEN drawToppingsOnSlices(tops, <<0, 1, 2, 3, 4, 5, 6, 7>>)
      ELSE IF halfInfo.given
        THEN drawToppingsOnSlices(halfInfo.leftToppings, <<2, 3, 4, 5>>)
             \o drawToppingsOnSlices(halfInfo.rightToppings, <<0, 1, 6, 7>>)
      ELSE <<>>)
  \o [i \in 1..NUM_SLICES |-> LayerCall("sliceLine", i - 1)]
  \o (IF pmode = "half" THEN <<LayerCall("divider", -1)>> ELSE <<>>)

(***************************************************************************)
(* SpecDraw: drawContent on selections of either topology                  *)
(***************************************************************************)
\* the decorations drawn here: point decorations and the overlay
DrawIds == {ToppingIds[i] : i \in 1..NumDrawToppings} \cup {"ranch"}

\* the selections of at most n of them, in insertion order
Selections(n) ==
  UNION {{s \in [1..k -> DrawIds] : \A i, j \in 1..k : i # j => s[i] # s[j]} :
           k \in 0..n}

\* the calls of drawContent made here
DrawInputs ==
  {[tops |-> tops, pmode |-> "whole",
    halfInfo |-> HalfPizzaInfo(FALSE, <<>>, <<>>)] :
     tops \in Selections(MAX_TOPPINGS)}
  \cup {[tops |-> <<>>, pmode |-> "half",
         halfInfo |-> HalfPizzaInfo(given, left, right)] :
          given \in BOOLEAN, left \in Selections(MaxHalfDrawn),
          right \in Selections(MaxHalfDrawn)}

InitDraw ==
  /\ InitComponent /\ InitStore
  /\ fnCall \in {Pending("drawContent", args) : args \in DrawInputs}
  /\ fnRet = <<>>

DrawWhole ==
  /\ Calling("drawContent")
  /\ fnCall.args.pmode = "whole"
  /\ Returns(drawContentCalls(fnCall.args.tops, "whole", fnCall.args.halfInfo))

DrawHalf ==
  /\ Calling("drawContent")
  /\ fnCall.args.pmode = "half"
  /\ Returns(drawContentCalls(fnCall.args.tops, "half", fnCall.args.halfInfo))

NextDraw ==
  \/ DrawWhole
  \/ DrawHalf

SpecDraw == InitDraw /\ [][NextDraw]_vars

\* the decorations the returned calls draw on a wedge
DrawnOn(wedge) ==
  {fnRet[i].topping : i \in {j \in DOMAIN fnRet :
                             /\ fnRet[j].kind \in {"render", "renderSlice"}
                             /\ fnRet[j].slice = wedge}}

\* C15: in half topology the wedges 2, 3, 4, 5 get the decorations of the left
\* set and no others, the wedges 0, 1, 6, 7 those of the right set and no
\* others, so an empty half leaves its wedges bare; every decoration draw is
\* for one of the eight wedges, and crust, sauce, cheese and cheese ring are
\* each drawn once.
C15_HalvesDrawOnOwnWedges ==
  (Returned("drawContent") /\ fnCall.args.pmode = "half"
     /\ fnCall.args.halfInfo.given) =>
    /\ \A wedge \in {2, 3, 4, 5} :
         DrawnOn(wedge) = Range(fnCall.args.halfInfo.leftToppings)
    /\ \A wedge \in {0, 1, 6, 7} :
         DrawnOn(wedge) = Range(fnCall.args.halfInfo.rightToppings)
    /\ \A i \in DOMAIN fnRet :
         fnRet[i].kind \in {"render", "renderSlice"} => fnRet[i].slice \in 0..7
    /\ \A layer \in {"crust", "sauce", "cheese", "cheeseRing"} :
         Cardinality({i \in DOMAIN fnRet : fnRet[i].kind = layer}) = 1

\* a half-and-half draw with two decorations on the left and none on the right
C15_Witness ==
  /\ Returned("drawContent")
  /\ fnCall.args.pmode = "half"
  /\ fnCall.args.halfInfo.given
  /\ Len(fnCall.args.halfInfo.leftToppings) = 2
  /\ fnCall.args.halfInfo.rightToppings = <<>>
  /\ DrawnOn(3) # {}
  /\ DrawnOn(0) = {}

\* the placements of a point decoration on a wedge
Placements(t, wedge) ==
  Cardinality({i \in DOMAIN fnRet : /\ fnRet[i].kind = "render"
                                    /\ fnRet[i].topping = t
                                    /\ fnRet[i].slice = wedge})

\* C16: with n point decorations in whole topology (n from 1 to 4) each of
\* them is placed on 5, 4, 3, 2 slots (for n = 1, 2, 3, 4) of every one of
\* the 8 wedges, on distinct slots of the wedge; one decoration alone is
\* placed 40 times, and with none nothing is placed.
C16_DensityRule ==
  (Returned("drawContent") /\ fnCall.args.pmode = "whole") =>
    LET points == SelectSeq(fnCall.args.tops, IsPositioned)
        n == Len(points)
        placed == {i \in DOMAIN fnRet : fnRet[i].kind = "render"}
    IN  /\ \A t \in Range(points), wedge \in 0..7 :
             Placements(t, wedge) = CASE n = 1 -> 5
                                      [] n = 2 -> 4
                                      [] n = 3 -> 3
                                      [] n = 4 -> 2
        /\ \A i, j \in placed :
             (i # j /\ fnRet[i].slice = fnRet[j].slice) => fnRet[i].pos # fnRet[j].pos
        /\ \A i \in placed : fnRet[i].pos \in SLICE_POSITIONS
        /\ n = 1 => Cardinality(placed) = 40
        /\ n = 0 => placed = {}

\* four point decorations drawn, two slots a wedge each
C16_Witness ==
  /\ Returned("drawContent")
  /\ fnCall.args.pmode = "whole"
  /\ Len(SelectSeq(fnCall.args.tops, IsPositioned)) = 4
  /\ Cardinality({i \in DOMAIN fnRet : fnRet[i].kind = "render"}) = 64

(***************************************************************************)
(* SpecSched: getFlipAngle and getWaveOffsets at times near and far        *)
(***************************************************************************)
\* times within MaxCycles wave cycles of 0, before and after
NearTimes == (-(MaxCycles * WaveCycle))..(MaxCycles * WaveCycle)

\* a whole number of flip cycles and of wave cycles, far from 0
FarBase == FarCycles * FlipCycle * WaveCycle

\* the times the functions are called at: near 0, very large, very negative
SchedTimes ==
  NearTimes \cup {FarBase + r : r \in NearTimes}
            \cup {-FarBase + r : r \in NearTimes}

InitSched ==
  /\ InitComponent /\ InitStore
  /\ fnCall \in {Pending(fn, [time |-> time]) :
                   fn \in {"getFlipAngle", "getWaveOffsets"},
                   time \in SchedTimes}
  /\ fnRet = <<>>

FlipAngleCall ==
  /\ Calling("getFlipAngle")
  /\ Returns(getFlipAngle(fnCall.args.time))

\* both directions of the wave at one time
WaveOffsetsCall ==
  /\ Calling("getWaveOffsets")
  /\ Returns([forward |-> getWaveOffsets(fnCall.args.time, FALSE),
              reverse |-> getWaveOffsets(fnCall.args.time, TRUE)])

NextSched ==
  \/ FlipAngleCall
  \/ WaveOffsetsCall

SpecSched == InitSched /\ [][NextSched]_vars

\* the position of a time in its flip cycle
InFlipCycle(time) == ((time % FlipCycle) + FlipCycle) % FlipCycle

C20_ReverseWaveMirrors ==
  Returned("getWaveOffsets") =>
    \A k \in 0..7 : fnRet.reverse[k + 1] = fnRet.forward[(7 - k) + 1]

\* at a negative time the wave is under way: the wedges differ, one has turned
\* fully and one not at all
C20_Witness ==
  /\ Returned("getWaveOffsets")
  /\ fnCall.args.time < 0
  /\ fnRet.forward[1] = WaveDen
  /\ fnRet.forward[8] = 0
  /\ fnRet.forward[4] \notin {0, WaveDen}
  /\ fnRet.reverse[5] = fnRet.forward[4]

(***************************************************************************)
(* SpecFrame: drawPizza on what the scheduling functions give, tick by tick *)
(***************************************************************************)
\* how far an angle of num/den half turns is from the nearest odd quarter
\* turn, in 1/(2 den) half turns: |cos| of the angle is sin(pi/2 * dist/den)
CosDist(num, den) ==
  LET r == num % den
  IN  IF 2 * r >= den THEN 2 * r - den ELSE den - 2 * r

\* Math.abs(cosFlip) || 0.001 for an angle of num/den half turns: the floor
\* replaces a cosine of 0 and nothing else.  milliLow is the whole number of
\* thousandths the scale reaches for sure (sin(pi/2 x) >= x), below says that
\* it stays under one thousandth for sure (sin(y) <= y and 1571 > 500 pi)
scaleOf(num, den) ==
  LET dist == CosDist(num, den)
  IN  [floored |-> dist = 0,
       milliLow |-> IF dist = 0 THEN 1 ELSE dist \div (den \div 1000),
       below |-> dist # 0 /\ dist < den \div 1571]

\* the scales drawPizza applies: scalePerp of each wedge, or scaleY, or none
drawPizzaScales(sliceOffsets, flipAngle) ==
  IF sliceOffsets # NoOffsets
    THEN [i \in 1..NUM_SLICES |-> scaleOf(2 * sliceOffsets[i], WaveDen)]
  ELSE IF flipAngle # NoFlip THEN <<scaleOf(flipAngle, FlipDen)>>
  ELSE <<>>

\* the modes a frame is drawn in, none included
FrameAnimations == AnimationTypes \cup {Null}

\* the ticks of MaxCycles wave cycles, which are longer than the flip cycles
FrameTimes == 0..(MaxCycles * WaveCycle)

\* what drawPizza is handed in a mode at a time, and what it draws
frameAt(anim, time) ==
  LET sliceOffsets == IF anim \in {"wave", "wave-ccw"}
                        THEN getWaveOffsets(time, anim = "wave-ccw")
                      ELSE NoOffsets
      flipAngle == IF anim = "flip" THEN getFlipAngle(time) ELSE NoFlip
      rotation == IF anim \in {"cw", "ccw"}
                    THEN Angle(rotationSpeed(anim) * time, 0)
                  ELSE ZeroAngle
  IN  [frame |-> drawPizza(<<>>, rotation, sliceOffsets, Null, "whole",
                           [leftToppings |-> {}, rightToppings |-> {}],
                           flipAngle),
       scales |-> drawPizzaScales(sliceOffsets, flipAngle)]

InitFrame ==
  /\ InitComponent /\ InitStore
  /\ fnCall \in {Pending("drawPizza", [animation |-> anim, time |-> time]) :
                   anim \in FrameAnimations, time \in FrameTimes}
  /\ fnRet = <<>>

\* the first frame of a run
DrawFrame ==
  /\ Calling("drawPizza")
  /\ Returns(frameAt(fnCall.args.animation, fnCall.args.time))

\* the frame one tick later
NextFrame ==
  /\ Returned("drawPizza")
  /\ fnCall.args.time + 1 \in FrameTimes
  /\ fnCall' = [fnCall EXCEPT !.args.time = @ + 1]
  /\ fnRet' = frameAt(fnCall.args.animation, fnCall.args.time + 1)
  /\ UNCHANGED <<cvars, hvars, svars, lastOp, snap, steps>>

NextFrames ==
  \/ DrawFrame
  \/ NextFrame

SpecFrame == InitFrame /\ [][NextFrames]_vars

\* C17 as stated: every scale drawPizza applies, to a wedge in a wave or to
\* the whole shape in a flip, is at least 0.001, and where the floor applies
\* the scale is 0.001.
C17_ScaleAtLeastFloor ==
  Returned("drawPizza") =>
    \A i \in DOMAIN fnRet.scales :
      /\ ~fnRet.scales[i].below
      /\ fnRet.scales[i].floored => fnRet.scales[i].milliLow = 1

\* cos of num/den half turns is negative
CosNegative(num, den) ==
  LET r == num % (2 * den)
  IN  2 * r > den /\ 2 * r < 3 * den

\* C18: in a flip cycle the front face is drawn at full height at t = 0, the
\* face switches to the back once during the first eased flip, the back is
\* drawn at full height through the face-down pause, the face switches to
\* the front once during the second eased flip, and the front is drawn at
\* full height through the face-up pause; at every time the back is drawn
\* exactly when the cosine of the flip angle is negative; in the rotations
\* and without animation the back is never drawn.
C18_FlipPhases ==
  /\ [](Returned("drawPizza") =>
          LET t == InFlipCycle(fnCall.args.time)
              faces == fnRet.frame.faces
          IN  /\ fnCall.args.animation = "flip" =>
                   /\ Len(faces) = 1
                   /\ t = 0 =>
                        faces[1] = "front" /\ fnRet.scales[1].milliLow = 1000
                   /\ t = FlipDuration - 1 => faces[1] = "back"
                   /\ (t >= FlipDuration /\ t < FlipDuration + PauseDuration) =>
                        faces[1] = "back" /\ fnRet.scales[1].milliLow = 1000
                   /\ t = FlipDuration + PauseDuration => faces[1] = "back"
                   /\ t = 2 * FlipDuration + PauseDuration - 1 =>
                        faces[1] = "front"
                   /\ t >= 2 * FlipDuration + PauseDuration =>
                        faces[1] = "front" /\ fnRet.scales[1].milliLow = 1000
                   /\ faces[1] = "back" <=>
                        CosNegative(fnRet.frame.flip, FlipDen)
              /\ fnCall.args.animation \in {Null, "cw", "ccw"} =>
                   \A i \in DOMAIN faces : faces[i] = "front")
  /\ [][(/\ Returned("drawPizza")
         /\ fnCall.args.animation = "flip"
         /\ fnCall'.args.time = fnCall.args.time + 1) =>
          LET t == InFlipCycle(fnCall.args.time)
          IN  /\ t + 1 < FlipDuration =>
                   (fnRet.frame.faces[1] = "back" =>
                      fnRet'.frame.faces[1] = "back")
              /\ (t >= FlipDuration + PauseDuration
                    /\ t + 1 < 2 * FlipDuration + PauseDuration) =>
                   (fnRet.frame.faces[1] = "front" =>
                      fnRet'.frame.faces[1] = "front")]_vars

\* late in the second flip the front is drawn again, not yet at full height
C18_Witness ==
  /\ Returned("drawPizza")
  /\ fnCall.args.animation = "flip"
  /\ fnCall.args.time > FlipDuration + PauseDuration
  /\ fnRet.frame.flip > FlipDen
  /\ fnRet.frame.faces[1] = "front"
  /\ fnRet.scales[1].milliLow < 1000

(***************************************************************************)
(* SpecSweep: getWaveOffsets sampled through one forward wave cycle        *)
(***************************************************************************)
\* the sweeps: from the start of a cycle, a sample every step ticks
SweepSteps == 1..MaxSweepStep
SweepStarts == {c * WaveCycle : c \in (-MaxCycles)..MaxCycles}

\* the sample time at which each wedge was first seen at 2 pi: none yet, or one
NoneYet == [i \in 1..NUM_SLICES |-> {}]

firstFull(first, offsets, time) ==
  [i \in 1..NUM_SLICES |->
     IF first[i] = {} /\ offsets[i] = WaveDen THEN {time} ELSE first[i]]

\* one sample of the sweep
sweepSample(first, time) ==
  LET offsets == getWaveOffsets(time, FALSE)
  IN  [offsets |-> offsets, first |-> firstFull(first, offsets, time)]

InitSweep ==
  /\ InitComponent /\ InitStore
  /\ fnCall \in {Pending("getWaveOffsets",
                         [start |-> start, step |-> step, time |-> start]) :
                   start \in SweepStarts, step \in SweepSteps}
  /\ fnRet = <<>>

\* the first sample, at the start of the cycle
SweepFirst ==
  /\ Calling("getWaveOffsets")
  /\ Returns(sweepSample(NoneYet, fnCall.args.time))

\* the sweep is at its last sample in the cycle
SweepOver ==
  fnCall.args.time + fnCall.args.step >= fnCall.args.start + WaveCycle

\* the next sample, one step later in the same cycle
SweepNext ==
  /\ Returned("getWaveOffsets")
  /\ ~SweepOver
  /\ fnCall' = [fnCall EXCEPT !.args.time = @ + fnCall.args.step]
  /\ fnRet' = sweepSample(fnRet.first, fnCall.args.time + fnCall.args.step)
  /\ UNCHANGED <<cvars, hvars, svars, lastOp, snap, steps>>

NextSweep ==
  \/ SweepFirst
  \/ SweepNext

SpecSweep == InitSweep /\ [][NextSweep]_vars

\* wedge k was seen at 2 pi, and wedge k - 1 at an earlier sample
ReachedAfterPrevious(first, k) ==
  /\ first[k + 1] # {}
  /\ k >= 1 =>
       /\ first[k] # {}
       /\ \A a \in first[k], b \in first[k + 1] : a < b

CanvasWidth == 500
CanvasHeight == 500
PIZZA_RADIUS == 180
\* 2 pi / NUM_SLICES, in sixteenths of a turn
SLICE_WIDTH == 2

centerX == CanvasWidth \div 2
centerY == CanvasHeight \div 2

\* one call on a drawing context, with its numeric arguments
Cv(target, op, args) == [target |-> target, op |-> op, args |-> args]

\* Math.abs(cosFlip) || 0.001 as the argument of scale: CosDist of the angle,
\* which gives |cos| = sin(pi/2 * dist/den), and 0 where the floor applies
scaleArg(num, den) == CosDist(num, den)

\* the SliceTransform of wedge s at an offset of off/WaveDen turns; angles in
\* sixteenths of a turn
SliceTransform(s, off) ==
  [bisector |-> s * SLICE_WIDTH + SLICE_WIDTH \div 2,
   scalePerp |-> scaleArg(2 * off, WaveDen),
   startAngle |-> s * SLICE_WIDTH,
   clipRadius |-> PIZZA_RADIUS + 25]

applySliceTransform(target, cx, cy, st) ==
  << Cv(target, "save", <<>>),
     Cv(target, "translate", <<cx, cy>>),
     Cv(target, "rotate", <<st.bisector>>),
     Cv(target, "scale", <<1, st.scalePerp>>),
     Cv(target, "rotate", <<-st.bisector>>),
     Cv(target, "translate", <<-cx, -cy>>),
     Cv(target, "beginPath", <<>>),
     Cv(target, "moveTo", <<cx, cy>>),
     Cv(target, "arc", <<cx, cy, st.clipRadius, st.startAngle,
                         st.startAngle + SLICE_WIDTH>>),
     Cv(target, "closePath", <<>>),
     Cv(target, "clip", <<>>) >>

\* the zone map of a neon frame: a canvas of the same size and its context
zoneCanvas(activeFilter) ==
  IF activeFilter = "neon"
    THEN << Cv("zone", "createElement", <<CanvasWidth, CanvasHeight>>),
            Cv("zone", "getContext", <<>>) >>
  ELSE <<>>

\* one wedge of the wave without the restore of the visible surface
drawPizzaSliceNoRestore(s, off, zoneCtx) ==
  LET showBack == SliceShowsBack(off)
      st == SliceTransform(s, off)
  IN  applySliceTransform("ctx", centerX, centerY, st)
      \o << IF showBack THEN Cv("ctx", "drawBackFace", <<>>)
            ELSE Cv("ctx", "drawContent", <<>>) >>
      \o (IF zoneCtx
            THEN applySliceTransform("zone", centerX, centerY, st)
                 \o << IF showBack THEN Cv("zone", "drawZoneBackFace", <<>>)
                       ELSE Cv("zone", "drawZoneContent", <<>>),
                       Cv("zone", "restore", <<>>) >>
          ELSE <<>>)

\* drawPizza, the body of the loop over the wedges: wedge s
drawPizzaSlice(s, off, zoneCtx) ==
  LET showBack == SliceShowsBack(off)
      st == SliceTransform(s, off)
  IN  applySliceTransform("ctx", centerX, centerY, st)
      \o << IF showBack THEN Cv("ctx", "drawBackFace", <<>>)
            ELSE Cv("ctx", "drawContent", <<>>),
            Cv("ctx", "restore", <<>>) >>
      \o (IF zoneCtx
            THEN applySliceTransform("zone", centerX, centerY, st)
                 \o << IF showBack THEN Cv("zone", "drawZoneBackFace", <<>>)
                       ELSE Cv("zone", "drawZoneContent", <<>>),
                       Cv("zone", "restore", <<>>) >>
          ELSE <<>>)

\* the coin flip whose zone map is not squashed
drawPizzaFlipZoneUnscaled(flipAngle, zoneCtx) ==
  LET showBack == FlipShowsBack(flipAngle)
      scaleY == scaleArg(flipAngle, FlipDen)
  IN  << Cv("ctx", "save", <<>>),
         Cv("ctx", "translate", <<centerX, centerY>>),
         Cv("ctx", "scale", <<1, scaleY>>),
         Cv("ctx", "translate", <<-centerX, -centerY>>),
         IF showBack THEN Cv("ctx", "drawBackFace", <<>>)
         ELSE Cv("ctx", "drawContent", <<>>),
         Cv("ctx", "restore", <<>>) >>
      \o (IF zoneCtx
            THEN << Cv("zone", "save", <<>>),
                    Cv("zone", "translate", <<centerX, centerY>>),
                    Cv("zone", "translate", <<-centerX, -centerY>>),
                    IF showBack THEN Cv("zone", "drawZoneBackFace", <<>>)
                    ELSE Cv("zone", "drawZoneContent", <<>>),
                    Cv("zone", "restore", <<>>) >>
          ELSE <<>>)

\* drawPizza, the coin flip branch
drawPizzaFlip(flipAngle, zoneCtx) ==
  LET showBack == FlipShowsBack(flipAngle)
      scaleY == scaleArg(flipAngle, FlipDen)
  IN  << Cv("ctx", "save", <<>>),
         Cv("ctx", "translate", <<centerX, centerY>>),
         Cv("ctx", "scale", <<1, scaleY>>),
         Cv("ctx", "translate", <<-centerX, -centerY>>),
         IF showBack THEN Cv("ctx", "drawBackFace", <<>>)
         ELSE Cv("ctx", "drawContent", <<>>),
         Cv("ctx", "restore", <<>>) >>
      \o (IF zoneCtx
            THEN << Cv("zone", "save", <<>>),
                    Cv("zone", "translate", <<centerX, centerY>>),
                    Cv("zone", "scale", <<1, scaleY>>),
                    Cv("zone", "translate", <<-centerX, -centerY>>),
                    IF showBack THEN Cv("zone", "drawZoneBackFace", <<>>)
                    ELSE Cv("zone", "drawZoneContent", <<>>),
                    Cv("zone", "restore", <<>>) >>
          ELSE <<>>)

\* drawPizza, the branch of the rotations and of the still frame; the
\* rotation is an Angle, passed as its two parts
drawPizzaRotate(rotation, zoneCtx) ==
  << Cv("ctx", "save", <<>>),
     Cv("ctx", "translate", <<centerX, centerY>>),
     Cv("ctx", "rotate", <<rotation.mrad, rotation.turn60>>),
     Cv("ctx", "translate", <<-centerX, -centerY>>),
     Cv("ctx", "drawContent", <<>>),
     Cv("ctx", "restore", <<>>) >>
  \o (IF zoneCtx
        THEN << Cv("zone", "save", <<>>),
                Cv("zone", "translate", <<centerX, centerY>>),
                Cv("zone", "rotate", <<rotation.mrad, rotation.turn60>>),
                Cv("zone", "translate", <<-centerX, -centerY>>),
                Cv("zone", "drawZoneContent", <<>>),
                Cv("zone", "restore", <<>>) >>
      ELSE <<>>)

\* the filter applied although none is active
applyFilterAlways(activeFilter, zoneCtx) ==
  IF activeFilter = "neon" /\ zoneCtx
    THEN << Cv("ctx", "applyNeonFilter", <<>>) >>
  ELSE IF activeFilter = "negative"
    THEN << Cv("ctx", "applyNegativeFilter", <<CanvasWidth, CanvasHeight>>) >>
  ELSE << Cv("ctx", "applyMonoFilter", <<CanvasWidth, CanvasHeight>>) >>

\* drawPizza, the filter at its end
applyFilter(activeFilter, zoneCtx) ==
  IF activeFilter = "mono"
    THEN << Cv("ctx", "applyMonoFilter", <<CanvasWidth, CanvasHeight>>) >>
  ELSE IF activeFilter = "neon" /\ zoneCtx
    THEN << Cv("ctx", "applyNeonFilter", <<>>) >>
  ELSE IF activeFilter = "negative"
    THEN << Cv("ctx", "applyNegativeFilter", <<CanvasWidth, CanvasHeight>>) >>
  ELSE <<>>

\* drawPizza: the calls of one frame, in order.  What drawContent draws is
\* drawContentCalls; here it is one call, as is each face of the zone map.
drawPizzaCalls(rotation, sliceOffsets, activeFilter, flipAngle) ==
  LET zoneCtx == activeFilter = "neon"
  IN  << Cv("ctx", "clearRect", <<0, 0, CanvasWidth, CanvasHeight>>) >>
      \o zoneCanvas(activeFilter)
      \o (IF sliceOffsets # NoOffsets
            THEN Concat([i \in 1..NUM_SLICES |->
                           drawPizzaSlice(i - 1, sliceOffsets[i], zoneCtx)])
          ELSE IF flipAngle # NoFlip THEN drawPizzaFlip(flipAngle, zoneCtx)
          ELSE drawPizzaRotate(rotation, zoneCtx))
      \o applyFilter(activeFilter, zoneCtx)

(***************************************************************************)
(* SpecCalls: the calls of one frame, in every mode and under every filter *)
(***************************************************************************)
\* the sampled ticks of the wave cycles, the longest cycles
CallTimes == {time \in FrameTimes : time % CallStep = 0}

\* the renderer's FilterType: the component's filters, negative, and none
FrameFilters == FilterTypes \cup {"negative", Null}

callsAt(anim, time, filt) ==
  drawPizzaCalls(
    IF anim \in {"cw", "ccw"} THEN Angle(rotationSpeed(anim) * time, 0)
    ELSE ZeroAngle,
    IF anim \in {"wave", "wave-ccw"} THEN getWaveOffsets(time, anim = "wave-ccw")
    ELSE NoOffsets,
    filt,
    IF anim = "flip" THEN getFlipAngle(time) ELSE NoFlip)

InitCallsOfFrame ==
  /\ InitComponent /\ InitStore
  /\ fnCall \in {Pending("drawPizza",
                         [animation |-> anim, time |-> time, filter |-> filt]) :
                   anim \in FrameAnimations, time \in CallTimes,
                   filt \in FrameFilters}
  /\ fnRet = <<>>

DrawPizzaCall ==
  /\ Calling("drawPizza")
  /\ Returns(callsAt(fnCall.args.animation, fnCall.args.time,
                     fnCall.args.filter))

\* the same mode and filter at the next sampled tick
DrawPizzaAgain ==
  /\ Returned("drawPizza")
  /\ fnCall.args.time + CallStep \in CallTimes
  /\ fnCall' = [fnCall EXCEPT !.args.time = @ + CallStep]
  /\ fnRet' = callsAt(fnCall.args.animation, fnCall.args.time + CallStep,
                      fnCall.args.filter)
  /\ UNCHANGED <<cvars, hvars, svars, lastOp, snap, steps>>

NextCalls ==
  \/ DrawPizzaCall
  \/ DrawPizzaAgain

SpecCalls == InitCallsOfFrame /\ [][NextCalls]_vars

\* the calls made on one context
On(calls, target) == SelectSeq(calls, LAMBDA c : c.target = target)

\* the face a call draws
FaceOf(op) ==
  IF op \in {"drawContent", "drawZoneContent"} THEN "front"
  ELSE IF op \in {"drawBackFace", "drawZoneBackFace"} THEN "back"
  ELSE "none"

IsFaceDraw(c) == FaceOf(c.op) # "none"

\* the transforms, clips and faces among calls: save to restore, the faces
\* by their side
TransformSequence(calls) ==
  LET kept == SelectSeq(calls, LAMBDA c :
                c.op \in {"save", "translate", "rotate", "scale", "beginPath",
                          "moveTo", "arc", "closePath", "clip", "restore"}
                \/ IsFaceDraw(c))
  IN  [i \in 1..Len(kept) |->
         [op |-> IF IsFaceDraw(kept[i]) THEN FaceOf(kept[i].op)
                 ELSE kept[i].op,
          args |-> kept[i].args]]

Places(calls, ops) == {i \in DOMAIN calls : calls[i].op \in ops}

Nth(places, n) == CHOOSE i \in places : Cardinality({j \in places : j < i}) = n - 1

\* the saves not yet restored after the first n of calls
Depth(calls, n) ==
  Cardinality(Places(SubSeq(calls, 1, n), {"save"}))
    - Cardinality(Places(SubSeq(calls, 1, n), {"restore"}))

FaceDraws == {"drawContent", "drawBackFace"}

\* C25: in both wave modes one drawPizza makes exactly 8 clip-then-draw steps
\* on the visible surface, the k-th one clipped to wedge k - 1, each between
\* a save and a restore of its own: every save finds the stack as the frame
\* found it, no more than one save is open at any call, and the stack is
\* back at its depth of the frame's start after each wedge and at the end.
C25_WedgesDrawnUnderOwnState ==
  (Returned("drawPizza") /\ fnCall.args.animation \in {"wave", "wave-ccw"}) =>
    LET calls == On(fnRet, "ctx")
        saves == Places(calls, {"save"})
        arcs == Places(calls, {"arc"})
        clips == Places(calls, {"clip"})
        draws == Places(calls, FaceDraws)
        restores == Places(calls, {"restore"})
    IN  /\ Cardinality(saves) = NUM_SLICES
        /\ Cardinality(arcs) = NUM_SLICES
        /\ Cardinality(clips) = NUM_SLICES
        /\ Cardinality(draws) = NUM_SLICES
        /\ Cardinality(restores) = NUM_SLICES
        /\ \A k \in 1..NUM_SLICES :
             /\ Nth(saves, k) < Nth(arcs, k)
             /\ Nth(arcs, k) < Nth(clips, k)
             /\ Nth(clips, k) < Nth(draws, k)
             /\ Nth(draws, k) < Nth(restores, k)
             /\ k < NUM_SLICES => Nth(restores, k) < Nth(saves, k + 1)
             /\ calls[Nth(arcs, k)].args[4] = (k - 1) * SLICE_WIDTH
             /\ calls[Nth(arcs, k)].args[5] = k * SLICE_WIDTH
             /\ Depth(calls, Nth(saves, k) - 1) = 0
             /\ Depth(calls, Nth(restores, k)) = 0
        /\ \A n \in 0..Len(calls) : Depth(calls, n) \in {0, 1}
        /\ Depth(calls, Len(calls)) = 0

\* a reverse wave under way under the mono filter: wedge 7 shows its back,
\* wedge 0 its front
C25_Witness ==
  /\ Returned("drawPizza")
  /\ fnCall.args.animation = "wave-ccw"
  /\ fnCall.args.filter = "mono"
  /\ LET calls == On(fnRet, "ctx")
         draws == Places(calls, FaceDraws)
     IN  /\ Cardinality(draws) = NUM_SLICES
         /\ calls[Nth(draws, 1)].op = "drawContent"
         /\ calls[Nth(draws, NUM_SLICES)].op = "drawBackFace"

FilterCalls == {"applyMonoFilter", "applyNeonFilter", "applyNegativeFilter"}

\* the call that applies a filter
FilterCallOf(filt) ==
  CASE filt = "mono" -> "applyMonoFilter"
    [] filt = "neon" -> "applyNeonFilter"
    [] filt = "negative" -> "applyNegativeFilter"

ToUint8Clamp(num, den, up) ==
  LET q == num \div den
      r == num % den
      nearest == IF 2 * r < den THEN q
                 ELSE IF 2 * r > den THEN q + 1
                 ELSE IF up THEN q + 1 ELSE q
  IN  Min(255, nearest)

\* the first byte of the pixel that byte i of the data belongs to
PixelStart(i) == i - ((i - 1) % 4)

\* the monochrome filter with too heavy a blue weight
applyMonoFilterHeavyBlue(d, up) ==
  [i \in 1..Len(d) |->
     IF i % 4 = 0 THEN d[i]
     ELSE LET p == PixelStart(i)
          IN  ToUint8Clamp(299 * d[p] + 587 * d[p + 1] + 144 * d[p + 2],
                           1000, up)]

\* applyMonoFilter on the data d (r, g, b, a of each pixel in turn): the
\* luminance 0.299 r + 0.587 g + 0.114 b into r, g and b, a left alone
applyMonoFilter(d, up) ==
  [i \in 1..Len(d) |->
     IF i % 4 = 0 THEN d[i]
     ELSE LET p == PixelStart(i)
          IN  ToUint8Clamp(299 * d[p] + 587 * d[p + 1] + 114 * d[p + 2],
                           1000, up)]

\* the largest edge strength of the frame, 0 without any
RECURSIVE maxEdgeOf(_)
maxEdgeOf(edge) ==
  IF edge = <<>> THEN 0 ELSE Max(Head(edge), maxEdgeOf(Tail(edge)))

\* the dark background of the neon frame
NeonBackground == <<8, 5, 20>>

\* the neon colour of pixel i, read from the zone map's data zd: the
\* background where the zone map is transparent, else the zone map's colour
neonColour(zd, i) ==
  LET zp == 4 * (i - 1)
  IN  IF zd[zp + 4] = 0 THEN NeonBackground
      ELSE <<zd[zp + 1], zd[zp + 2], zd[zp + 3]>>

\* Math.min(1, edge[i] * invMax * 2.5) as the fraction num/den, with
\* invMax = 1 / maxEdge, or 0 when maxEdge is 0
boostedEdge(edge, i) ==
  LET maxEdge == maxEdgeOf(edge)
  IN  IF maxEdge > 0
        THEN [num |-> Min(2 * maxEdge, 5 * edge[i]), den |-> 2 * maxEdge]
      ELSE [num |-> 0, den |-> 1]

\* the output whose brightness is the edge, not its square
neonOutputUnsquared(d, edge, zd, up) ==
  [j \in 1..Len(d) |->
     IF j % 4 = 0 THEN d[j]
     ELSE LET i == ((j - 1) \div 4) + 1
              c == ((j - 1) % 4) + 1
              e == boostedEdge(edge, i)
          IN  ToUint8Clamp(NeonBackground[c] * e.den
                             + e.num * neonColour(zd, i)[c],
                           e.den, up)]

\* applyNeonFilter, "3. Build output": out of the image's data d, the edge
\* strengths and the zone map's data, before the glow passes
neonOutput(d, edge, zd, up) ==
  [j \in 1..Len(d) |->
     IF j % 4 = 0 THEN d[j]
     ELSE LET i == ((j - 1) \div 4) + 1
              c == ((j - 1) % 4) + 1
              e == boostedEdge(edge, i)
              brightness == [num |-> e.num * e.num, den |-> e.den * e.den]
          IN  ToUint8Clamp(NeonBackground[c] * brightness.den
                             + brightness.num * neonColour(zd, i)[c],
                           brightness.den, up)]

\* the inputs of the neon stage: BufPixels pixels, the first transparent or
\* opaque and the others opaque, their edge strength, and what the zone map
\* has there (nothing, crust, cheese)
ZonePixels == {<<0, 0, 0, 0>>, <<255, 140, 20, 255>>, <<255, 255, 40, 255>>}

NeonInputs ==
  {[data |-> Concat([i \in 1..BufPixels |->
                       <<10, 20, 30, IF i = 1 THEN alpha ELSE 255>>]),
    edge |-> edge,
    zone |-> Concat(zone)] :
     alpha \in {0, 255},
     edge \in [1..BufPixels -> 0..MaxEdge],
     zone \in [1..BufPixels -> ZonePixels]}

InitNeon ==
  /\ InitComponent /\ InitStore
  /\ fnCall \in {Pending("applyNeonFilter", in) : in \in NeonInputs}
  /\ fnRet = <<>>

\* the output of the neon filter before its glow
NeonBuild ==
  /\ Calling("applyNeonFilter")
  /\ \E up \in BOOLEAN :
       Returns(neonOutput(fnCall.args.data, fnCall.args.edge,
                          fnCall.args.zone, up))

(***************************************************************************)
(* SpecFilter: the filters on small buffers                                *)
(***************************************************************************)
\* channel values: every LevelStep-th, the largest, and 250, where a blue of
\* 250 alone has a luminance of 28.5
ByteLevels == {v \in 0..255 : v % LevelStep = 0} \cup {250, 255}
AlphaLevels == {0, 128, 255}

\* buffers of one pixel of any of these values, and of two pixels of
\* extreme values
MonoBuffers ==
  {<<r, g, b, a>> : r \in ByteLevels, g \in ByteLevels, b \in ByteLevels,
                    a \in AlphaLevels}
  \cup {<<r, g, b, a>> \o <<s, s, t, c>> :
          r \in {0, 255}, g \in {0, 255}, b \in {0, 255}, a \in {0, 255},
          s \in {0, 255}, t \in {0, 250}, c \in {0, 255}}

InitMono ==
  /\ InitComponent /\ InitStore
  /\ fnCall \in {Pending("applyMonoFilter", [data |-> d]) : d \in MonoBuffers}
  /\ fnRet = <<>>

InitFilter == InitMono \/ InitNeon

\* the filter applied to the buffer
MonoPass ==
  /\ Calling("applyMonoFilter")
  /\ \E up \in BOOLEAN :
       Returns([data |-> applyMonoFilter(fnCall.args.data, up),
                before |-> fnCall.args.data,
                passes |-> 1])

\* the filter applied to its own result
MonoAgain ==
  /\ Returned("applyMonoFilter")
  /\ fnRet.passes < MaxPasses
  /\ \E up \in BOOLEAN :
       fnRet' = [data |-> applyMonoFilter(fnRet.data, up),
                 before |-> fnRet.data,
                 passes |-> fnRet.passes + 1]
  /\ UNCHANGED <<fnCall, cvars, hvars, svars, lastOp, snap, steps>>

NextFilter ==
  \/ MonoPass
  \/ MonoAgain
  \/ NeonBuild

SpecFilter == InitFilter /\ [][NextFilter]_vars

\* C23: applying the monochrome filter to its own result changes nothing,
\* with the rounding to bytes included, whichever way that rounding breaks a
\* tie; and the filter leaves the alpha of every pixel as it was.
C23_MonoIdempotent ==
  Returned("applyMonoFilter") =>
    /\ fnRet.passes >= 2 => fnRet.data = fnRet.before
    /\ Len(fnRet.data) = Len(fnCall.args.data)
    /\ \A i \in DOMAIN fnRet.data :
         i % 4 = 0 => fnRet.data[i] = fnCall.args.data[i]

\* the filter was applied twice to a pixel that was not grey and is half
\* transparent: the first pass changed it
C23_Witness ==
  /\ Returned("applyMonoFilter")
  /\ fnRet.passes = 2
  /\ fnCall.args.data[1] # fnCall.args.data[3]
  /\ fnCall.args.data[4] = 128
  /\ fnRet.data # fnCall.args.data
  /\ fnRet.data[1] \notin {0, 255}

\* the byte out is the nearest to num/den, or 255 where that is beyond
NearestByte(out, num, den) ==
  \/ out = 255 /\ 2 * num >= 509 * den
  \/ /\ out \in 0..255
     /\ 2 * (out * den - num) <= den
     /\ 2 * (num - out * den) <= den

\* the edge strength of pixel i over the frame's maximum, 0 without edges
NormalisedEdge(i) ==
  LET maxEdge == maxEdgeOf(fnCall.args.edge)
  IN  IF maxEdge = 0 THEN [num |-> 0, den |-> 1]
      ELSE [num |-> fnCall.args.edge[i], den |-> maxEdge]

\* 2.5 times the normalised edge, at most 1
BoostedNormalisedEdge(i) ==
  LET n == NormalisedEdge(i)
  IN  IF 5 * n.num >= 2 * n.den THEN [num |-> 1, den |-> 1]
      ELSE [num |-> 5 * n.num, den |-> 2 * n.den]

\* each pixel's colour is the background plus the square of a fraction of
\* its edge (boosted or only normalised) times its neon colour, as bytes, and
\* its alpha is the image's
NeonOutputIs(boosted) ==
  LET pixels == 1..Len(fnCall.args.edge)
  IN  /\ Len(fnRet) = 4 * Len(fnCall.args.edge)
      /\ \A i \in pixels :
           /\ fnRet[4 * i] = fnCall.args.data[4 * i]
           /\ \A c \in 1..3 :
                LET n == IF boosted THEN BoostedNormalisedEdge(i)
                         ELSE NormalisedEdge(i)
                    colour == neonColour(fnCall.args.zone, i)
                IN  NearestByte(fnRet[4 * (i - 1) + c],
                                NeonBackground[c] * n.den * n.den
                                  + n.num * n.num * colour[c],
                                n.den * n.den)

\* C24 as stated: before the glow, every pixel's colour is the background
\* (8,5,20) plus n squared times its neon colour, per channel and clamped to
\* 255, with n its edge strength over the frame's maximum (0 when that is
\* 0), and its alpha is the original alpha.
C24_NeonSquaredNormalisedEdge ==
  Returned("applyNeonFilter") => NeonOutputIs(FALSE)

\* C24: before the glow, every pixel's colour is the background (8,5,20)
\* plus e squared times its neon colour, per channel, as the nearest byte
\* and at most 255, with e = min(1, 2.5 n) and n its edge strength over the
\* frame's maximum (0 when that is 0), and its alpha is the original alpha.
C24_NeonSquaredBoostedEdge ==
  Returned("applyNeonFilter") => NeonOutputIs(TRUE)

\* a pixel on the crust with a fifth of the strongest edge: it glows at a
\* quarter of the crust's neon colour, and keeps its alpha of 0
C24_Witness ==
  /\ Returned("applyNeonFilter")
  /\ maxEdgeOf(fnCall.args.edge) = 5 * fnCall.args.edge[1]
  /\ fnCall.args.edge[1] > 0
  /\ fnCall.args.zone[1] = 255
  /\ fnCall.args.zone[2] = 140
  /\ fnCall.args.data[4] = 0
  /\ fnRet[1] = 72
  /\ fnRet[4] = 0

\* C27: at every moment at most one animation frame request is pending, and
\* it is the one rafRef.current names, of the loop of the present animation
\* mode, selection and filter; none is pending while the mode is none.  So
\* every frame a callback draws is a frame of the present configuration (its
\* mode, its filter, and its selection wherever a front face shows); and
\* the step that turns the mode to none draws the static frame and leaves no
\* frame requested.
C27_OneFrameLoop ==
  /\ [](/\ Cardinality(rafQueue) <= 1
        /\ animation = Null => rafQueue = {}
        /\ \A cb \in rafQueue :
             /\ cb.id = rafId
             /\ cb.cl = Closure(animation, filter, selectedToppings))
  /\ [][/\ lastOp'.op = "animate" =>
             /\ animation # Null
             /\ lastOp'.arg = animation
             /\ canvas'.filt = filter
             /\ canvas'.content \in {NoContent, drawContent(selectedToppings, mode,
                                                        HalfInfo)}
             /\ Cardinality(rafQueue') = 1
        /\ (animation # Null /\ animation' = Null) =>
             /\ canvas' = StaticFrame(selectedToppings', filter', mode',
                                      HalfInfo')
             /\ rafQueue' = {}]_vars

\* a wave frame was drawn after a rotation had turned the shape: the
\* rotation's loop was replaced, and one request is pending
C27_Witness ==
  /\ lastOp.op = "animate"
  /\ lastOp.arg = "wave"
  /\ lastOp.rot # 0
  /\ filter = "neon"
  /\ Cardinality(rafQueue) = 1

\* the point decoration draws among the returned calls
RenderCalls == {i \in DOMAIN fnRet : fnRet[i].kind = "render"}

\* the lists of slots share no slot, repeat none, and name slots 0..8 only
DisjointSlots(sets) ==
  /\ \A a \in DOMAIN sets :
       /\ \A x \in DOMAIN sets[a] : sets[a][x] \in SLICE_POSITIONS
       /\ \A x, y \in DOMAIN sets[a] : x # y => sets[a][x] # sets[a][y]
  /\ \A a, b \in DOMAIN sets :
       a # b => Range(sets[a]) \cap Range(sets[b]) = {}

\* C28: the slot lists distributePositions returns are pairwise disjoint and
\* hold slots 0..8 only, for every count (beyond four decorations too, where
\* four lists are returned); so in the calls of one drawContent no two draws
\* of point decorations are at the same slot of the same wedge.
C28_SlotsDisjoint ==
  Returned("drawContent") =>
    /\ \A i, j \in RenderCalls :
         (fnRet[i].slice = fnRet[j].slice /\ fnRet[i].pos = fnRet[j].pos)
           => i = j
    /\ \A i \in RenderCalls : fnRet[i].pos \in SLICE_POSITIONS
    /\ \A count \in 0..(Len(fnCall.args.tops) + 2) :
         DisjointSlots(distributePositions(count))

\* four point decorations on the whole shape: 64 draws, two slots a wedge each
C28_Witness ==
  /\ Returned("drawContent")
  /\ fnCall.args.pmode = "whole"
  /\ Len(SelectSeq(fnCall.args.tops, IsPositioned)) = 4
  /\ Cardinality(RenderCalls) = 64

(***************************************************************************)
(* SpecExpLive: exports beside two animation modes, where every awaited    *)
(* promise of an export settles                                            *)
(***************************************************************************)
\* a continuation of handleExportGif runs: the import or the encode settled
ExportSettles ==
  \/ ExportImportFail /\ Quiet
  \/ ExportNoContext /\ Quiet
  \/ ExportCapture /\ Quiet
  \/ \E i \in 0..MaxFailFrame : ExportCaptureFail(i) /\ Quiet
  \/ ExportEncodeOk /\ Quiet
  \/ ExportEncodeFail /\ Quiet

\* the handlers of SpecExp with the animation modes cw and flip only
NextExpLive ==
  \/ \E type \in {"cw", "flip"} : ToggleAnimation(type) /\ Quiet
  \/ AnimateRotate /\ Quiet
  \/ AnimateFlip /\ Quiet
  \/ HandleExportGif /\ Quiet
  \/ ExportSettles
  \/ ClearStatus /\ Quiet

SpecExpLive == Init /\ [][NextExpLive]_vars /\ WF_vars(ExportSettles)

\* the steps on which handleExportGif returns or has thrown
ExportExits ==
  {"exportDownload", "exportNoContext", "exportImportFail",
   "exportCaptureFail", "exportEncodeFail"}

\* C29: exporting turns true only on a click while an animation mode is
\* active; every way out of handleExportGif (the download, no drawing
\* context, a failure of the import, of the capture or of the encoding)
\* leaves exporting false; and, the awaited import and encoding settling,
\* exporting once true is false again later.
C29_ExportingReturnsToFalse ==
  /\ [][(~exporting /\ exporting') =>
          /\ animation # Null
          /\ lastOp'.op = "handleExportGif"]_vars
  /\ [][(lastOp'.op \in ExportExits /\ lastOp' # lastOp) => ~exporting']_vars
  /\ [](exporting <=> exportPc # "idle")
  /\ (exporting ~> ~exporting)

\* an export ended without a drawing context: exporting is false again and
\* no failure is reported
C29_Witness ==
  /\ lastOp.op = "exportNoContext"
  /\ ~exporting
  /\ saveStatus = ""
  /\ animation # Null

(***************************************************************************)
(* SpecLoad: a signed-in user's selection saved, listed and loaded, beside *)
(* saves of other payloads under the same account, in runs of at most      *)
(* MaxLoadSteps steps                                                      *)
(***************************************************************************)
\* the handlers and calls of one run
MaxLoadSteps == 5

\* the decorations toggled here
LoadToppings == {"olive", "pepperoni"}

\* the payload handleSavePizza hands to savePizza
SavePayload(pizzaName) ==
  [name |-> pizzaName, toppings |-> selectedToppings,
   animation |-> animation, filter |-> filter]

\* payloads of other callers of savePizza: four decorations, a decoration
\* named twice beside the overlay, and five decorations with no modes
OtherPayloads ==
  {[name |-> NameOf(50),
    toppings |-> <<"pepperoni", "olive", "ham", "bacon">>, mode |-> "whole",
    leftToppings |-> <<>>, rightToppings |-> <<>>, animation |-> "flip"],
   [name |-> NameOf(1), toppings |-> <<"ham", "ranch", "ham", "olive">>,
    animation |-> "ccw", filter |-> "negative"],
   [name |-> NameOf(1),
    toppings |-> <<"pepperoni", "olive", "ham", "bacon", "onion">>]}

\* the selection and the surface as they are when savePizza is called
AtTheSave ==
  [taken |-> TRUE, fresh |-> TRUE, tops |-> selectedToppings,
   animation |-> animation, filter |-> filter, elapsed |-> elapsed,
   rotation |-> rotationRef, frame |-> canvas]

\* handleSavePizza with a name, up to the end of its savePizza call
SaveSelection(session) ==
  /\ SavePizza(session, SavePayload(NameOf(1)))
  /\ snap' = IF lastOp'.arg.result = "pizza" THEN AtTheSave ELSE snap
  /\ steps < MaxLoadSteps /\ steps' = steps + 1
  /\ UNCHANGED pvars

\* savePizza called with another payload; a record it stores is the newest
SaveOther(data) ==
  /\ SavePizza("u1", data)
  /\ snap' = IF lastOp'.arg.result = "pizza"
               THEN [snap EXCEPT !.fresh = FALSE] ELSE snap
  /\ steps < MaxLoadSteps /\ steps' = steps + 1
  /\ UNCHANGED pvars

\* the click on Load of a row of the list that getUserPizzas just returned;
\* the call is recorded with the row it was given
LoadListed ==
  /\ lastOp.op = "getUserPizzas"
  /\ \E i \in 1..Len(lastOp.arg.pizzas) :
       /\ HandleLoadPizza(lastOp.arg.pizzas[i])
       /\ fnCall' = [fn |-> "handleLoadPizza", args |-> lastOp.arg.pizzas[i],
                     done |-> TRUE]
  /\ steps < MaxLoadSteps /\ steps' = steps + 1
  /\ UNCHANGED <<snap, fnRet>>

\* a step of a run of at most MaxLoadSteps handlers
CountedLoad ==
  steps < MaxLoadSteps /\ steps' = steps + 1 /\ UNCHANGED <<snap, pvars>>

NextLoad ==
  \/ \E topping \in LoadToppings : ToggleTopping(topping) /\ CountedLoad
  \/ \E type \in {"wave"} : ToggleAnimation(type) /\ CountedLoad
  \/ SaveSelection("u1")
  \/ \E data \in OtherPayloads : SaveOther(data)
  \/ GetUserPizzas("u1") /\ CountedLoad
  \/ LoadListed

SpecLoad == Init /\ [][NextLoad]_vars

\* the slots a selection gives a decoration on the wedges of the whole pizza
SlotsOf(tops, t) ==
  LET calls == drawContentCalls(tops, "whole", HalfPizzaInfo(FALSE, <<>>, <<>>))
  IN  {[slice |-> calls[i].slice, pos |-> calls[i].pos] :
         i \in {j \in 1..Len(calls) : calls[j].topping = t}}

\* a sequence names no member twice
NoDuplicates(arr) == \A i, j \in 1..Len(arr) : arr[i] = arr[j] => i = j

\* the members of arr come in the order they have in ref
InOrderOf(arr, ref) ==
  \A i, j \in 1..Len(arr) :
    i < j => \E k, l \in 1..Len(ref) :
               /\ k < l /\ ref[k] = arr[i] /\ ref[l] = arr[j]
               /\ \A m \in 1..(l - 1) : ref[m] # arr[j]

\* C30: a load makes the selection the record's decorations, each once and
\* in the record's order, and the animation and filter modes the record's
\* (null gives none); after the load of a record savePizza stored the
\* selection has at most 4 members; and when the record is the one saved
\* from the selection last, every decoration has the slots after the load
\* that it had when it was saved.
C30_LoadRestoresSelection ==
  [][lastOp'.op = "handleLoadPizza" =>
       LET pizza == fnCall'.args
       IN  /\ Range(selectedToppings') = Range(pizza.toppings)
           /\ NoDuplicates(selectedToppings')
           /\ InOrderOf(selectedToppings', pizza.toppings)
           /\ NoDuplicates(pizza.toppings) =>
                selectedToppings' = pizza.toppings
           /\ animation' = pizza.animation
           /\ filter' = pizza.filter
           /\ (\E p \in store : p.id = pizza.id) =>
                Len(selectedToppings') <= 4
           /\ (snap.fresh /\ pizza.id = nextId - 1) =>
                /\ selectedToppings' = snap.tops
                /\ \A t \in Range(snap.tops) :
                     SlotsOf(selectedToppings', t) = SlotsOf(snap.tops, t)]_vars

\* two decorations were saved, the selection was changed, and the load of the
\* saved record gave both the slots they had at the save
C30_Witness ==
  /\ lastOp.op = "handleLoadPizza"
  /\ snap.fresh
  /\ fnCall.args.id = nextId - 1
  /\ snap.tops = <<"olive", "pepperoni">>
  /\ selectedToppings = snap.tops
  /\ SlotsOf(selectedToppings, "olive") # SlotsOf(<<"pepperoni", "olive">>, "olive")
  /\ fnCall.args.animation = Null
  /\ animation = Null

=============================================================================
